---- MODULE Spec2Model ----
(***************************************************************************)
(* A model of the slow-query-log pipeline of LogSlowqueryDashboard:        *)
(* LogParser (core/log_parser.py), SQLAnalyzer (core/sql_analyzer.py) and  *)
(* DataManager (core/data_manager.py).                                     *)
(*                                                                         *)
(* Text is a sequence of one-character strings, and every regular          *)
(* expression of the source is an operator that scans such a sequence the  *)
(* way Python's re module does (leftmost match, greedy quantifiers).       *)
(* Query times are fixed-point numbers: integers in microseconds, the      *)
(* resolution MySQL prints them with.                                      *)
(***************************************************************************)
EXTENDS Integers, Sequences, FiniteSets, TLC

VARIABLES
    pc,        \* position of the run under way
    sqlA,      \* SQLAnalyzer.normalize_sql: a SQL text
    sqlB,      \* a second SQL text, a literal substitution of the same skeleton
    tplA,      \* normalize_sql(sqlA)
    tplB,      \* normalize_sql(sqlB)
    tplAA,     \* normalize_sql(tplA)
    type_of_sql,       \* get_sql_type(sqlA)
    type_of_template,  \* get_sql_type(normalize_sql(sqlA))
    log_content,   \* the text of a slow-query log
    raw_data,      \* the result of LogParser.parse_slow_log(log_content)
    summary_data,  \* the result of SQLAnalyzer.create_summary_data(raw_data)
    template_to_raw_dict,  \* the result of build_template_to_raw_mapping(raw_data)
    stats,         \* the result of calculate_performance_stats(raw_data)
    data_dir,          \* DataManager.data_dir: the analysis directories by name
    current_analysis,  \* DataManager.current_analysis
    response           \* what the last request to the API was answered with

normVars == <<sqlA, sqlB, tplA, tplB, tplAA, type_of_sql, type_of_template>>
pipeVars == <<log_content, raw_data, summary_data, template_to_raw_dict, stats>>
dmVars == <<data_dir, current_analysis, response>>
vars == <<pc, normVars, pipeVars, dmVars>>

\* An optional value (Python's None or a value) is a sequence of length 0 or 1.
None == <<>>
Some(x) == <<x>>
IsSome(o) == o # <<>>
Get(o) == o[1]

\* The name of the default analysis (a fixed literal of data_manager.py) and
\* the names under which analyses are stored.
DefaultName == "default"
AnalysisNames == {"a", "b", "m"}

\* DataManager.__init__: the data directory holds no analysis, the current
\* analysis is the default one and is empty.  No request has been answered.
DataManagerInit ==
    /\ data_dir = [ name \in AnalysisNames |-> None ]
    /\ current_analysis = [ name |-> DefaultName, summary_data |-> <<>>,
                            template_to_raw_dict |-> <<>>, raw_data |-> <<>> ]
    /\ response = None

----------------------------------------------------------------------------
(* Characters and the classes the regular expressions use.                 *)

UpperSeq == <<"A","B","C","D","E","F","G","H","I","J","K","L","M",
              "N","O","P","Q","R","S","T","U","V","W","X","Y","Z">>
LowerSeq == <<"a","b","c","d","e","f","g","h","i","j","k","l","m",
              "n","o","p","q","r","s","t","u","v","w","x","y","z">>
Uppers == {UpperSeq[i] : i \in DOMAIN UpperSeq}
Lowers == {LowerSeq[i] : i \in DOMAIN LowerSeq}
\* \d
Digits == {"0","1","2","3","4","5","6","7","8","9"}
\* \w
WordChars == Uppers \cup Lowers \cup Digits \cup {"_"}
\* \s, and what str.strip() removes
Space == {" ", "\t", "\n", "\r", "\f"}

\* str.lower() and str.upper(), one character
LowerChar == [c \in Uppers |-> LowerSeq[CHOOSE i \in DOMAIN UpperSeq : UpperSeq[i] = c]]
UpperChar == [c \in Lowers |-> UpperSeq[CHOOSE i \in DOMAIN LowerSeq : LowerSeq[i] = c]]
Lower(s) == [i \in 1..Len(s) |-> IF s[i] \in Uppers THEN LowerChar[s[i]] ELSE s[i]]
Upper(s) == [i \in 1..Len(s) |-> IF s[i] \in Lowers THEN UpperChar[s[i]] ELSE s[i]]

\* the first index >= i of s whose character is not in cls (Len(s)+1 if none):
\* where a greedy cls* that starts at i ends
RECURSIVE SkipClass(_, _, _)
SkipClass(s, i, cls) ==
    IF i <= Len(s) /\ s[i] \in cls THEN SkipClass(s, i + 1, cls) ELSE i

\* the first index >= i of s that holds c, 0 if none
IndexOfChar(s, c, i) ==
    LET at == { p \in i..Len(s) : s[p] = c }
    IN  IF at = {} THEN 0 ELSE CHOOSE p \in at : \A q \in at : p <= q

\* lit occurs in s at index i
StartsAt(s, lit, i) ==
    /\ i >= 1
    /\ i + Len(lit) - 1 <= Len(s)
    /\ \A k \in 1..Len(lit) : s[i + k - 1] = lit[k]

\* the first index >= i at which lit occurs in s, 0 if none
IndexOf(s, lit, i) ==
    LET at == { p \in i..(Len(s) - Len(lit) + 1) : s[p] = lit[1] /\ StartsAt(s, lit, p) }
    IN  IF at = {} THEN 0 ELSE CHOOSE p \in at : \A q \in at : p <= q

\* \b holds between s[i-1] and s[i]
WordBoundary(s, i) ==
    LET isWord(k) == k >= 1 /\ k <= Len(s) /\ s[k] \in WordChars
    IN  isWord(i - 1) # isWord(i)

\* s[i..j-1]
Slice(s, i, j) == IF j <= i THEN <<>> ELSE SubSeq(s, i, j - 1)

\* str.strip()
RECURSIVE RSkip(_, _)
RSkip(s, j) == IF j >= 1 /\ s[j] \in Space THEN RSkip(s, j - 1) ELSE j
Strip(s) == Slice(s, SkipClass(s, 1, Space), RSkip(s, Len(s)) + 1)

----------------------------------------------------------------------------
(* SQLAnalyzer.normalize_sql, one operator per re.sub of the source.  Each *)
(* Sub operator rewrites s from index i on: where the pattern matches at i *)
(* it emits the replacement and goes on after the match, otherwise it      *)
(* copies s[i] and goes on at i + 1.                                       *)

\* re.sub(r"\s+", " ", sql)
RECURSIVE SubWhitespace(_, _)
SubWhitespace(s, i) ==
    IF i > Len(s) THEN <<>>
    ELSE IF s[i] \in Space
         THEN <<" ">> \o SubWhitespace(s, SkipClass(s, i, Space))
         ELSE <<s[i]>> \o SubWhitespace(s, i + 1)

\* re.sub(r"'[^']*'", "?", sql) and re.sub(r'"[^"]*"', "?", sql), q the quote
RECURSIVE SubQuoted(_, _, _)
SubQuoted(s, q, i) ==
    IF i > Len(s) THEN <<>>
    ELSE LET close == IF s[i] = q THEN IndexOfChar(s, q, i + 1) ELSE 0
         IN  IF close # 0
             THEN <<"?">> \o SubQuoted(s, q, close + 1)
             ELSE <<s[i]>> \o SubQuoted(s, q, i + 1)

\* \b\d+\.\d+\b at i: the index after the match, 0 if there is none
MatchDecimal(s, i) ==
    LET k == SkipClass(s, i, Digits)
    IN  IF WordBoundary(s, i) /\ k > i /\ k <= Len(s) /\ s[k] = "."
        THEN LET m == SkipClass(s, k + 1, Digits)
             IN  IF m > k + 1 /\ WordBoundary(s, m) THEN m ELSE 0
        ELSE 0

\* re.sub(r"\b\d+\.\d+\b", "?", sql)
RECURSIVE SubDecimal(_, _)
SubDecimal(s, i) ==
    IF i > Len(s) THEN <<>>
    ELSE LET m == MatchDecimal(s, i)
         IN  IF m # 0
             THEN <<"?">> \o SubDecimal(s, m)
             ELSE <<s[i]>> \o SubDecimal(s, i + 1)

\* \b\d+\b at i: the index after the match, 0 if there is none
MatchInteger(s, i) ==
    LET k == SkipClass(s, i, Digits)
    IN  IF WordBoundary(s, i) /\ k > i /\ WordBoundary(s, k) THEN k ELSE 0

\* re.sub(r"\b\d+\b", "?", sql)
RECURSIVE SubInteger(_, _)
SubInteger(s, i) ==
    IF i > Len(s) THEN <<>>
    ELSE LET m == MatchInteger(s, i)
         IN  IF m # 0
             THEN <<"?">> \o SubInteger(s, m)
             ELSE <<s[i]>> \o SubInteger(s, i + 1)

\* (\?,\s*)* from j: the index after the last "?," group and its spaces
RECURSIVE SkipPlaceholderItems(_, _)
SkipPlaceholderItems(s, j) ==
    IF StartsAt(s, <<"?", ",">>, j)
    THEN SkipPlaceholderItems(s, SkipClass(s, j + 2, Space))
    ELSE j

\* \(\s*(\?,\s*)*\?\s*\) at i: the index after the match, 0 if there is none
MatchPlaceholderList(s, i) ==
    IF s[i] # "(" THEN 0
    ELSE LET j == SkipPlaceholderItems(s, SkipClass(s, i + 1, Space))
         IN  IF j <= Len(s) /\ s[j] = "?"
             THEN LET e == SkipClass(s, j + 1, Space)
                  IN  IF e <= Len(s) /\ s[e] = ")" THEN e + 1 ELSE 0
             ELSE 0

\* re.sub(r"\(\s*(\?,\s*)*\?\s*\)", "(?)", sql)
RECURSIVE SubPlaceholderList(_, _)
SubPlaceholderList(s, i) ==
    IF i > Len(s) THEN <<>>
    ELSE LET m == MatchPlaceholderList(s, i)
         IN  IF m # 0
             THEN <<"(", "?", ")">> \o SubPlaceholderList(s, m)
             ELSE <<s[i]>> \o SubPlaceholderList(s, i + 1)

\* normalize_sql with the placeholder lists collapsed before the numbers are
\* masked
normalize_sql_ListsFirst(sql) ==
    LET s1 == Lower(sql)
        s2 == SubWhitespace(s1, 1)
        s3 == SubQuoted(s2, "'", 1)
        s4 == SubQuoted(s3, "\"", 1)
        s5 == SubPlaceholderList(s4, 1)
        s6 == SubDecimal(s5, 1)
        s7 == SubInteger(s6, 1)
    IN  Strip(s7)

normalize_sql(sql) ==
    LET s1 == Lower(sql)
        s2 == SubWhitespace(s1, 1)
        s3 == SubQuoted(s2, "'", 1)
        s4 == SubQuoted(s3, "\"", 1)
        s5 == SubDecimal(s4, 1)
        s6 == SubInteger(s5, 1)
        s7 == SubPlaceholderList(s6, 1)
    IN  Strip(s7)

----------------------------------------------------------------------------
(* SQLAnalyzer.get_sql_type                                                *)

SqlKeywords ==
    { <<"S","E","L","E","C","T">>, <<"I","N","S","E","R","T">>,
      <<"U","P","D","A","T","E">>, <<"D","E","L","E","T","E">>,
      <<"R","E","P","L","A","C","E">>, <<"C","A","L","L">> }
TypeOther == <<"O","T","H","E","R">>

\* a variant that compares the first word as it is written
get_sql_type_CaseSensitive(sql) ==
    LET b == SkipClass(sql, 1, Space)
        e == SkipClass(sql, b, WordChars)
        keyword == Slice(sql, b, e)
    IN  IF e = b THEN TypeOther
        ELSE IF keyword \in SqlKeywords THEN keyword ELSE TypeOther

\* a variant whose first word has to start the text
get_sql_type_NoLeadingSpace(sql) ==
    LET s == Lower(sql)
        e == SkipClass(s, 1, WordChars)
        keyword == Upper(Slice(s, 1, e))
    IN  IF e = 1 THEN TypeOther
        ELSE IF keyword \in SqlKeywords THEN keyword ELSE TypeOther

get_sql_type(sql) ==
    LET s == Lower(sql)
        b == SkipClass(s, 1, Space)
        e == SkipClass(s, b, WordChars)
        keyword == Upper(Slice(s, b, e))
    IN  IF e = b THEN TypeOther
        ELSE IF keyword \in SqlKeywords THEN keyword ELSE TypeOther

----------------------------------------------------------------------------
(* normalize_sql applied twice: the inputs are the SQL texts made of at    *)
(* most MaxPieces pieces, each piece a character or token that one of the  *)
(* substitutions of normalize_sql reacts to.                               *)

MaxPieces == 4

NormPieces ==
    { <<"S">>, <<" ">>, <<"\n">>, <<"'">>, <<"\"">>, <<"1">>,
      <<".">>, <<"(">>, <<")">>, <<",">>, <<"?">> }

RECURSIVE TextsOf(_, _)
TextsOf(pieces, n) ==
    IF n = 0 THEN { <<>> }
    ELSE LET shorter == TextsOf(pieces, n - 1)
         IN  shorter \cup { t \o p : t \in shorter, p \in pieces }

NormInit ==
    /\ pc = "start"
    /\ sqlA \in TextsOf(NormPieces, MaxPieces)
    /\ sqlB = <<>>
    /\ tplA = None /\ tplB = None /\ tplAA = None
    /\ type_of_sql = None /\ type_of_template = None
    /\ log_content = <<>> /\ raw_data = None /\ summary_data = None
    /\ template_to_raw_dict = None /\ stats = None
    /\ DataManagerInit

\* template = normalize_sql(sql)
Normalize ==
    /\ pc = "start"
    /\ tplA' = Some(normalize_sql(sqlA))
    /\ tplB' = Some(normalize_sql(sqlB))
    /\ pc' = "normalized"
    /\ UNCHANGED <<sqlA, sqlB, tplAA, type_of_sql, type_of_template, pipeVars, dmVars>>

\* the template normalized again
Renormalize ==
    /\ pc = "normalized"
    /\ tplAA' = Some(normalize_sql(Get(tplA)))
    /\ pc' = "done"
    /\ UNCHANGED <<sqlA, sqlB, tplA, tplB, type_of_sql, type_of_template, pipeVars, dmVars>>

NormNext == Normalize \/ Renormalize

SpecNorm == NormInit /\ [][NormNext]_vars

----------------------------------------------------------------------------
(* Literal substitution: a skeleton is a statement with slots for literals, *)
(* lists of literals and whitespace; two substitutions of one skeleton give *)
(* two SQL texts that differ only in literal values and whitespace.         *)

MaxListLen == 2

Text(t) == [kind |-> "text", text |-> t]
LitSlot == [kind |-> "lit", text |-> <<>>]
ListSlot == [kind |-> "list", text |-> <<>>]
WsSlot == [kind |-> "ws", text |-> <<>>]

Skeletons ==
    << \* select * from t where id = <literal>
       << Text(<<"s","e","l","e","c","t"," ","*"," ","f","r","o","m"," ","t"," ",
                 "w","h","e","r","e"," ","i","d"," ","="," ">>), LitSlot >>,
       \* select a from t where b = <literal> and c in <list>
       << Text(<<"s","e","l","e","c","t"," ","a"," ","f","r","o","m"," ","t"," ",
                 "w","h","e","r","e"," ","b"," ","="," ">>), LitSlot,
          Text(<<" ","a","n","d"," ","c"," ","i","n"," ">>), ListSlot >>,
       \* update t<ws>set a = <literal>
       << Text(<<"u","p","d","a","t","e"," ","t">>), WsSlot,
          Text(<<"s","e","t"," ","a"," ","="," ">>), LitSlot >> >>

\* integer, decimal, single-quoted (one with an escaped quote: 'o''b') and
\* double-quoted literals
Literals ==
    { <<"5">>, <<"4","2">>, <<"3",".","1","4">>, <<"'","a","'">>,
      <<"'","o","'","'","b","'">>, <<"\"","x","\"">> }
ListLiterals == { <<"1">>, <<"'","a","'">> }
ListSeparators == { <<",">>, <<",", " ">> }
Whitespaces == { <<" ">>, <<" ", " ">>, <<"\n">> }

RECURSIVE Join(_, _)
Join(items, sep) ==
    IF Len(items) = 0 THEN <<>>
    ELSE IF Len(items) = 1 THEN items[1]
    ELSE items[1] \o sep \o Join(Tail(items), sep)

ListValues ==
    { <<"(">> \o Join(items, sep) \o <<")">> :
        items \in UNION { [1..n -> ListLiterals] : n \in 1..MaxListLen },
        sep \in ListSeparators }

SlotValues(item) ==
    CASE item.kind = "text" -> { item.text }
      [] item.kind = "lit" -> Literals
      [] item.kind = "list" -> ListValues
      [] item.kind = "ws" -> Whitespaces

\* the SQL texts a skeleton stands for
RECURSIVE Instances(_)
Instances(skel) ==
    IF Len(skel) = 0 THEN { <<>> }
    ELSE { v \o rest : v \in SlotValues(Head(skel)), rest \in Instances(Tail(skel)) }

LitInit ==
    /\ pc = "start"
    /\ \E k \in DOMAIN Skeletons :
          /\ sqlA \in Instances(Skeletons[k])
          /\ sqlB \in Instances(Skeletons[k])
    /\ tplA = None /\ tplB = None /\ tplAA = None
    /\ type_of_sql = None /\ type_of_template = None
    /\ log_content = <<>> /\ raw_data = None /\ summary_data = None
    /\ template_to_raw_dict = None /\ stats = None
    /\ DataManagerInit

SpecLit == LitInit /\ [][NormNext]_vars

----------------------------------------------------------------------------
(* The statement type of a text and of its template: calculate_performance_ *)
(* stats takes the type of the SQL text, create_summary_data the type of   *)
(* the template.  The texts are made of at most MaxTypePieces pieces: the  *)
(* six keywords in several spellings, a letter, a digit, an underscore,    *)
(* whitespace, a quote and a parenthesis.                                  *)

MaxTypePieces == 3

TypePieces ==
    { <<"s","e","l","e","c","t">>, <<"I","N","S","E","R","T">>,
      <<"U","p","d","a","t","e">>, <<"d","e","l","e","t","E">>,
      <<"R","E","P","L","A","C","E">>, <<"c","a","l","l">>,
      <<"x">>, <<"1">>, <<"_">>, <<" ">>, <<"\n">>, <<"'">>, <<"(">> }

TypeInit ==
    /\ pc = "start"
    /\ sqlA \in TextsOf(TypePieces, MaxTypePieces)
    /\ sqlB = <<>>
    /\ tplA = None /\ tplB = None /\ tplAA = None
    /\ type_of_sql = None /\ type_of_template = None
    /\ log_content = <<>> /\ raw_data = None /\ summary_data = None
    /\ template_to_raw_dict = None /\ stats = None
    /\ DataManagerInit

\* sql_type = SQLAnalyzer.get_sql_type(item.sql)
Classify ==
    /\ pc = "start"
    /\ type_of_sql' = Some(get_sql_type(sqlA))
    /\ pc' = "typed"
    /\ UNCHANGED <<sqlA, sqlB, tplA, tplB, tplAA, type_of_template, pipeVars, dmVars>>

\* norm_sql = self.normalize_sql(item.sql); sql_type = self.get_sql_type(norm_sql)
ClassifyTemplate ==
    /\ pc = "typed"
    /\ tplA' = Some(normalize_sql(sqlA))
    /\ type_of_template' = Some(get_sql_type(normalize_sql(sqlA)))
    /\ pc' = "done"
    /\ UNCHANGED <<sqlA, sqlB, tplB, tplAA, type_of_sql, pipeVars, dmVars>>

TypeNext == Classify \/ ClassifyTemplate

SpecType == TypeInit /\ [][TypeNext]_vars

----------------------------------------------------------------------------
(* QueryEntry (models/schemas.py) and LogParser (core/log_parser.py).      *)

\* QueryEntry(): every field None, tables_used the empty list
EmptyEntry ==
    [ time |-> None, user |-> None, host |-> None, thread_id |-> None,
      schema |-> None, qc_hit |-> None, query_time |-> None, lock_time |-> None,
      rows_sent |-> None, rows_examined |-> None, rows_affected |-> None,
      bytes_sent |-> None, timestamp |-> None, sql |-> None, tables_used |-> <<>> ]

Max(S) == CHOOSE x \in S : \A y \in S : y <= x
Min(S) == CHOOSE x \in S : \A y \in S : x <= y

\* the index of the first "\n" at or after i, Len(s) + 1 if none: where a
\* greedy .* (without DOTALL) that starts at i ends
LineEnd(s, i) ==
    LET n == IndexOfChar(s, "\n", i) IN IF n = 0 THEN Len(s) + 1 ELSE n

DigitSeq == <<"0","1","2","3","4","5","6","7","8","9">>
DigitValue == [c \in Digits |-> (CHOOSE i \in DOMAIN DigitSeq : DigitSeq[i] = c) - 1]

\* int(text), text matched by \d+
RECURSIVE ToInt(_)
ToInt(t) ==
    IF Len(t) = 0 THEN 0
    ELSE 10 * ToInt(SubSeq(t, 1, Len(t) - 1)) + DigitValue[t[Len(t)]]

\* float(text), text matched by [\d.]+: the value in microseconds, None where
\* float raises ValueError (no digit, or more than one dot).  Digits after the
\* sixth decimal are dropped.
ToFloat(t) ==
    LET dots == { i \in 1..Len(t) : t[i] = "." }
        dot == IF dots = {} THEN Len(t) + 1 ELSE Min(dots)
        whole == Slice(t, 1, dot)
        frac == Slice(t, dot + 1, Len(t) + 1)
        frac6 == [i \in 1..6 |-> IF i <= Len(frac) THEN frac[i] ELSE "0"]
    IN  IF Cardinality(dots) > 1 \/ Len(t) - Cardinality(dots) = 0
        THEN None
        ELSE Some(ToInt(whole) * 1000000 + ToInt(frac6))

TimeLit == <<"#"," ","T","i","m","e",":"," ">>
UserHostLit == <<"#"," ","U","s","e","r","@","H","o","s","t",":"," ">>
UserHostMidLit == <<"]"," ","@"," "," ","[">>
ThreadIdLit == <<"#"," ","T","h","r","e","a","d","_","i","d",":"," ">>
SchemaLit == <<"S","c","h","e","m","a",":"," ">>
QcHitLit == <<"Q","C","_","h","i","t",":"," ">>
QueryTimeLit == <<"#"," ","Q","u","e","r","y","_","t","i","m","e",":"," ">>
LockTimeLit == <<"L","o","c","k","_","t","i","m","e",":"," ">>
RowsSentLit == <<"R","o","w","s","_","s","e","n","t",":"," ">>
RowsExaminedLit == <<"R","o","w","s","_","e","x","a","m","i","n","e","d",":"," ">>
RowsAffectedLit == <<"#"," ","R","o","w","s","_","a","f","f","e","c","t","e","d",":"," ">>
BytesSentLit == <<"B","y","t","e","s","_","s","e","n","t",":"," ">>
SetTimestampLit == <<"S","E","T"," ","t","i","m","e","s","t","a","m","p","=">>

\* r"# Time: (.+)" at p: group 1
MatchTimeAt(s, p) ==
    LET g == p + Len(TimeLit)
        e == LineEnd(s, g)
    IN  IF e > g THEN Some(Slice(s, g, e)) ELSE None

\* r"# User@Host: (.+)\[(.+)\] @  \[(.*)\]" at p: groups 2 and 3.  The three
\* groups are greedy, so the match takes the last "[" that leaves a match of
\* the rest, then the last "] @  [", then the last "]" of the line.
MatchUserHostAt(s, p) ==
    LET g == p + Len(UserHostLit)
        L == LineEnd(s, g)
        Closes(m) == { e \in (m + Len(UserHostMidLit))..(L - 1) : s[e] = "]" }
        Mids(b) == { m \in (b + 2)..(L - 1) :
                        StartsAt(s, UserHostMidLit, m) /\ Closes(m) # {} }
        Opens == { b \in (g + 1)..(L - 1) : s[b] = "[" /\ Mids(b) # {} }
    IN  IF Opens = {} THEN None
        ELSE LET b == Max(Opens)
                 m == Max(Mids(b))
                 e == Max(Closes(m))
             IN  Some([ user |-> Slice(s, b + 1, m),
                        host |-> Slice(s, m + Len(UserHostMidLit), e) ])

\* r"# Thread_id: (\d+)\s+Schema: (\w+)\s+QC_hit: (\w+)" at p: the groups
MatchThreadAt(s, p) ==
    LET a0 == p + Len(ThreadIdLit)
        a1 == SkipClass(s, a0, Digits)
        b0 == SkipClass(s, a1, Space)
        c0 == b0 + Len(SchemaLit)
        c1 == SkipClass(s, c0, WordChars)
        d0 == SkipClass(s, c1, Space)
        e0 == d0 + Len(QcHitLit)
        e1 == SkipClass(s, e0, WordChars)
    IN  IF /\ a1 > a0 /\ b0 > a1 /\ StartsAt(s, SchemaLit, b0)
           /\ c1 > c0 /\ d0 > c1 /\ StartsAt(s, QcHitLit, d0)
           /\ e1 > e0
        THEN Some([ thread_id |-> Slice(s, a0, a1), schema |-> Slice(s, c0, c1),
                    qc_hit |-> Slice(s, e0, e1) ])
        ELSE None

\* r"# Query_time: ([\d.]+)\s+Lock_time: ([\d.]+)\s+Rows_sent: (\d+)\s+
\* Rows_examined: (\d+)" at p: the groups
MatchQueryTimeAt(s, p) ==
    LET a0 == p + Len(QueryTimeLit)
        a1 == SkipClass(s, a0, Digits \cup {"."})
        b0 == SkipClass(s, a1, Space)
        c0 == b0 + Len(LockTimeLit)
        c1 == SkipClass(s, c0, Digits \cup {"."})
        d0 == SkipClass(s, c1, Space)
        e0 == d0 + Len(RowsSentLit)
        e1 == SkipClass(s, e0, Digits)
        f0 == SkipClass(s, e1, Space)
        g0 == f0 + Len(RowsExaminedLit)
        g1 == SkipClass(s, g0, Digits)
    IN  IF /\ a1 > a0 /\ b0 > a1 /\ StartsAt(s, LockTimeLit, b0)
           /\ c1 > c0 /\ d0 > c1 /\ StartsAt(s, RowsSentLit, d0)
           /\ e1 > e0 /\ f0 > e1 /\ StartsAt(s, RowsExaminedLit, f0)
           /\ g1 > g0
        THEN Some([ query_time |-> Slice(s, a0, a1), lock_time |-> Slice(s, c0, c1),
                    rows_sent |-> Slice(s, e0, e1), rows_examined |-> Slice(s, g0, g1) ])
        ELSE None

\* r"# Rows_affected: (\d+)\s+Bytes_sent: (\d+)" at p: the groups
MatchRowsAffectedAt(s, p) ==
    LET a0 == p + Len(RowsAffectedLit)
        a1 == SkipClass(s, a0, Digits)
        b0 == SkipClass(s, a1, Space)
        c0 == b0 + Len(BytesSentLit)
        c1 == SkipClass(s, c0, Digits)
    IN  IF a1 > a0 /\ b0 > a1 /\ StartsAt(s, BytesSentLit, b0) /\ c1 > c0
        THEN Some([ rows_affected |-> Slice(s, a0, a1), bytes_sent |-> Slice(s, c0, c1) ])
        ELSE None

\* r"SET timestamp=(\d+);" at p: group 1
MatchTimestampAt(s, p) ==
    LET a0 == p + Len(SetTimestampLit)
        a1 == SkipClass(s, a0, Digits)
    IN  IF a1 > a0 /\ a1 <= Len(s) /\ s[a1] = ";"
        THEN Some(Slice(s, a0, a1))
        ELSE None

\* r"SET timestamp=\d+;\n(.+)" with re.DOTALL at p: group 1, which runs to the
\* end of the entry
MatchSqlAt(s, p) ==
    LET a0 == p + Len(SetTimestampLit)
        a1 == SkipClass(s, a0, Digits)
    IN  IF a1 > a0 /\ StartsAt(s, <<";", "\n">>, a1) /\ a1 + 2 <= Len(s)
        THEN Some(Slice(s, a1 + 2, Len(s) + 1))
        ELSE None

\* re.search(pattern, entry), one operator per pattern of _parse_single_entry:
\* the match at the leftmost occurrence, at or after i, of the pattern's
\* literal prefix at which the pattern matches, None if there is none
RECURSIVE SearchTime(_, _)
SearchTime(s, i) ==
    LET p == IndexOf(s, TimeLit, i)
    IN  IF p = 0 THEN None
        ELSE LET m == MatchTimeAt(s, p)
             IN  IF IsSome(m) THEN m ELSE SearchTime(s, p + 1)

RECURSIVE SearchUserHost(_, _)
SearchUserHost(s, i) ==
    LET p == IndexOf(s, UserHostLit, i)
    IN  IF p = 0 THEN None
        ELSE LET m == MatchUserHostAt(s, p)
             IN  IF IsSome(m) THEN m ELSE SearchUserHost(s, p + 1)

RECURSIVE SearchThread(_, _)
SearchThread(s, i) ==
    LET p == IndexOf(s, ThreadIdLit, i)
    IN  IF p = 0 THEN None
        ELSE LET m == MatchThreadAt(s, p)
             IN  IF IsSome(m) THEN m ELSE SearchThread(s, p + 1)

RECURSIVE SearchQueryTime(_, _)
SearchQueryTime(s, i) ==
    LET p == IndexOf(s, QueryTimeLit, i)
    IN  IF p = 0 THEN None
        ELSE LET m == MatchQueryTimeAt(s, p)
             IN  IF IsSome(m) THEN m ELSE SearchQueryTime(s, p + 1)

RECURSIVE SearchRowsAffected(_, _)
SearchRowsAffected(s, i) ==
    LET p == IndexOf(s, RowsAffectedLit, i)
    IN  IF p = 0 THEN None
        ELSE LET m == MatchRowsAffectedAt(s, p)
             IN  IF IsSome(m) THEN m ELSE SearchRowsAffected(s, p + 1)

RECURSIVE SearchTimestamp(_, _)
SearchTimestamp(s, i) ==
    LET p == IndexOf(s, SetTimestampLit, i)
    IN  IF p = 0 THEN None
        ELSE LET m == MatchTimestampAt(s, p)
             IN  IF IsSome(m) THEN m ELSE SearchTimestamp(s, p + 1)

RECURSIVE SearchSql(_, _)
SearchSql(s, i) ==
    LET p == IndexOf(s, SetTimestampLit, i)
    IN  IF p = 0 THEN None
        ELSE LET m == MatchSqlAt(s, p)
             IN  IF IsSome(m) THEN m ELSE SearchSql(s, p + 1)

\* the backtick character, written by name
Backtick == "BACKTICK"

FromLit == <<"f","r","o","m">>
JoinLit == <<"j","o","i","n">>
AsLit == <<"a","s">>

\* table_pattern with re.IGNORECASE at i of s (ls is s lower-cased): from or
\* join, \s+, an optional backtick, the name (\w+), an optional backtick, and
\* optionally \s+as or else \s+\w+.  Group 1 and the index after the match,
\* None if there is no match at i.
MatchTableAt(s, ls, i) ==
    LET a == i + Len(FromLit)
        b == SkipClass(s, a, Space)
        n0 == IF b <= Len(s) /\ s[b] = Backtick THEN b + 1 ELSE b
        n1 == SkipClass(s, n0, WordChars)
        c == IF n1 <= Len(s) /\ s[n1] = Backtick THEN n1 + 1 ELSE n1
        w == SkipClass(s, c, Space)
        alias == SkipClass(s, w, WordChars)
    IN  IF (StartsAt(ls, FromLit, i) \/ StartsAt(ls, JoinLit, i)) /\ b > a /\ n1 > n0
        THEN Some([ name |-> Slice(s, n0, n1),
                    end |-> IF w > c /\ StartsAt(ls, AsLit, w) THEN w + Len(AsLit)
                            ELSE IF w > c /\ alias > w THEN alias
                            ELSE c ])
        ELSE None

\* table_pattern.findall(sql) from index i on
RECURSIVE FindallTables(_, _, _)
FindallTables(s, ls, i) ==
    IF i > Len(s) THEN <<>>
    ELSE LET m == MatchTableAt(s, ls, i)
         IN  IF IsSome(m)
             THEN <<Get(m).name>> \o FindallTables(s, ls, Get(m).end)
             ELSE FindallTables(s, ls, i + 1)

\* the characters of \w in code-point order: Python compares str by code point
WordCharOrder == DigitSeq \o UpperSeq \o <<"_">> \o LowerSeq
CodeRank == [c \in WordChars |-> CHOOSE i \in DOMAIN WordCharOrder : WordCharOrder[i] = c]

\* a < b for two str of word characters
StrLess(a, b) ==
    LET n == IF Len(a) < Len(b) THEN Len(a) ELSE Len(b)
        diff == { i \in 1..n : a[i] # b[i] }
    IN  IF diff = {} THEN Len(a) < Len(b)
        ELSE CodeRank[a[Min(diff)]] < CodeRank[b[Min(diff)]]

\* set(list)
ToSet(list) == { list[i] : i \in DOMAIN list }

\* sorted(set) of a set of str
RECURSIVE Sorted(_)
Sorted(S) ==
    IF S = {} THEN <<>>
    ELSE LET least == CHOOSE x \in S : \A y \in S : x = y \/ StrLess(x, y)
         IN  <<least>> \o Sorted(S \ {least})

\* a variant that keeps the names as findall returns them, neither deduplicated
\* nor sorted
extract_tables_AsFound(sql) == FindallTables(sql, Lower(sql), 1)

\* the tables of a SQL text: sorted(set(self.table_pattern.findall(sql)))
extract_tables(sql) == Sorted(ToSet(FindallTables(sql, Lower(sql), 1)))

\* the assignments of _parse_single_entry to the fields of parsed, given the
\* match of each of the seven patterns (None where it does not match): the
\* QueryEntry, or the ValueError that float() raises on a matched time that
\* is no number
ParsedEntry(time, userhost, thread, timing, rows, timestamp, body) ==
    LET sql == Strip(Get(body))
        raised == /\ IsSome(timing)
                  /\ \/ ToFloat(Get(timing).query_time) = None
                     \/ ToFloat(Get(timing).lock_time) = None
    IN  [ raised |-> raised,
          entry |->
            IF raised THEN EmptyEntry
            ELSE
            [ time |-> IF IsSome(time) THEN Some(Strip(Get(time))) ELSE None,
              user |-> IF IsSome(userhost) THEN Some(Strip(Get(userhost).user)) ELSE None,
              host |-> IF IsSome(userhost) THEN Some(Strip(Get(userhost).host)) ELSE None,
              thread_id |-> IF IsSome(thread) THEN Some(ToInt(Get(thread).thread_id)) ELSE None,
              schema |-> IF IsSome(thread) THEN Some(Get(thread).schema) ELSE None,
              qc_hit |-> IF IsSome(thread) THEN Some(Get(thread).qc_hit) ELSE None,
              query_time |-> IF IsSome(timing) THEN ToFloat(Get(timing).query_time) ELSE None,
              lock_time |-> IF IsSome(timing) THEN ToFloat(Get(timing).lock_time) ELSE None,
              rows_sent |-> IF IsSome(timing) THEN Some(ToInt(Get(timing).rows_sent)) ELSE None,
              rows_examined |-> IF IsSome(timing) THEN Some(ToInt(Get(timing).rows_examined)) ELSE None,
              rows_affected |-> IF IsSome(rows) THEN Some(ToInt(Get(rows).rows_affected)) ELSE None,
              bytes_sent |-> IF IsSome(rows) THEN Some(ToInt(Get(rows).bytes_sent)) ELSE None,
              timestamp |-> IF IsSome(timestamp) THEN Some(ToInt(Get(timestamp))) ELSE None,
              sql |-> IF IsSome(body) THEN Some(sql) ELSE None,
              tables_used |-> IF IsSome(body) THEN extract_tables(sql) ELSE <<>> ] ]

\* a variant that looks for the thread line only in a block that has a
\* user line
_parse_single_entry_ThreadAfterUser(entry) ==
    ParsedEntry(SearchTime(entry, 1), SearchUserHost(entry, 1),
                IF IsSome(SearchUserHost(entry, 1)) THEN SearchThread(entry, 1) ELSE None,
                SearchQueryTime(entry, 1), SearchRowsAffected(entry, 1),
                SearchTimestamp(entry, 1), SearchSql(entry, 1))

\* LogParser._parse_single_entry: the seven searches over one block
_parse_single_entry(entry) ==
    ParsedEntry(SearchTime(entry, 1), SearchUserHost(entry, 1), SearchThread(entry, 1),
                SearchQueryTime(entry, 1), SearchRowsAffected(entry, 1),
                SearchTimestamp(entry, 1), SearchSql(entry, 1))

\* re.split(r"(?=^# Time: )", content, flags=re.MULTILINE): the indices at
\* which a line starts with the record marker
SplitPoints(content) ==
    { p \in 1..Len(content) :
        StartsAt(content, TimeLit, p) /\ (p = 1 \/ content[p - 1] = "\n") }

\* a variant that keeps the final piece only if it ends with a newline
RECURSIVE SplitFrom_DropsUnterminated(_, _, _)
SplitFrom_DropsUnterminated(content, points, i) ==
    LET later == { p \in points : p >= i /\ (p > i \/ i = 1) }
    IN  IF later = {}
        THEN IF Len(content) > 0 /\ content[Len(content)] = "\n"
             THEN << Slice(content, i, Len(content) + 1) >>
             ELSE <<>>
        ELSE << Slice(content, i, Min(later)) >>
             \o SplitFrom_DropsUnterminated(content, points \ {Min(later)}, Min(later))

\* the pieces of the split from index i on (a split at index 1 leaves an
\* empty first piece)
RECURSIVE SplitFrom(_, _, _)
SplitFrom(content, points, i) ==
    LET later == { p \in points : p >= i /\ (p > i \/ i = 1) }
    IN  IF later = {} THEN << Slice(content, i, Len(content) + 1) >>
        ELSE << Slice(content, i, Min(later)) >>
             \o SplitFrom(content, points \ {Min(later)}, Min(later))

\* parsed_entries.append(parsed_entry): the entry of one piece before those
\* of the later pieces, unless parsing either raised
AppendEntry(parsed, rest) ==
    IF parsed.raised \/ rest.raised
    THEN [ raised |-> TRUE, entries |-> <<>> ]
    ELSE [ raised |-> FALSE, entries |-> <<parsed.entry>> \o rest.entries ]

\* a variant that parses the blank pieces too
RECURSIVE ParseEntries_KeepsBlank(_)
ParseEntries_KeepsBlank(entries) ==
    IF Len(entries) = 0 THEN [ raised |-> FALSE, entries |-> <<>> ]
    ELSE AppendEntry(_parse_single_entry(Head(entries)),
                     ParseEntries_KeepsBlank(Tail(entries)))

\* the loop of parse_slow_log over the pieces: blank pieces are skipped, every
\* other piece gives one QueryEntry (a QueryEntry object is always true)
RECURSIVE ParseEntries(_)
ParseEntries(entries) ==
    IF Len(entries) = 0 THEN [ raised |-> FALSE, entries |-> <<>> ]
    ELSE IF Strip(Head(entries)) = <<>> THEN ParseEntries(Tail(entries))
    ELSE AppendEntry(_parse_single_entry(Head(entries)), ParseEntries(Tail(entries)))

\* LogParser.parse_slow_log: the QueryEntry list, or the exception raised
parse_slow_log(content) ==
    ParseEntries(SplitFrom(content, SplitPoints(content), 1))

----------------------------------------------------------------------------
(* SQLAnalyzer.create_summary_data                                         *)

\* "if item.sql:" holds of a str that is neither None nor empty
HasSql(item) == IsSome(item.sql) /\ Get(item.sql) # <<>>

RECURSIVE SumSeq(_)
SumSeq(q) == IF Len(q) = 0 THEN 0 ELSE Head(q) + SumSeq(Tail(q))

\* n / d rounded to the nearest integer, a tie to the even one (Python's round)
RoundDiv(n, d) ==
    LET q == n \div d
        r == n % d
    IN  IF 2 * r < d THEN q
        ELSE IF 2 * r > d THEN q + 1
        ELSE IF q % 2 = 0 THEN q ELSE q + 1

\* the items of a sequence at the indices in idx, in order
RECURSIVE Pick(_, _, _)
Pick(q, idx, i) ==
    IF i > Len(q) THEN <<>>
    ELSE IF i \in idx THEN <<q[i]>> \o Pick(q, idx, i + 1) ELSE Pick(q, idx, i + 1)

\* a variant that tests "item.sql is not None" and so groups the empty text too
RECURSIVE GroupBySql_NotNone(_, _)
GroupBySql_NotNone(raw, n) ==
    IF n = 0 THEN <<>>
    ELSE LET groups == GroupBySql_NotNone(raw, n - 1)
             item == raw[n]
         IN  IF ~IsSome(item.sql) THEN groups
             ELSE LET norm_sql == normalize_sql(Get(item.sql))
                      at == { k \in DOMAIN groups : groups[k].key = norm_sql }
                  IN  IF at = {}
                      THEN Append(groups, [ key |-> norm_sql, entries |-> <<item>> ])
                      ELSE [ groups EXCEPT ![Min(at)].entries = Append(@, item) ]

\* sql_groups after the loop over the first n items of raw_data: a dict, which
\* keeps its keys in the order of their first insertion
RECURSIVE GroupBySql(_, _)
GroupBySql(raw, n) ==
    IF n = 0 THEN <<>>
    ELSE LET groups == GroupBySql(raw, n - 1)
             item == raw[n]
         IN  IF ~HasSql(item) THEN groups
             ELSE LET norm_sql == normalize_sql(Get(item.sql))
                      at == { k \in DOMAIN groups : groups[k].key = norm_sql }
                  IN  IF at = {}
                      THEN Append(groups, [ key |-> norm_sql, entries |-> <<item>> ])
                      ELSE [ groups EXCEPT ![Min(at)].entries = Append(@, item) ]

\* a variant that divides the total time by the number of timed entries
SummaryOf_MeanOfTimed(norm_sql, entries) ==
    LET timed == Pick(entries, { i \in DOMAIN entries : IsSome(entries[i].query_time) }, 1)
        total_time == SumSeq([ i \in DOMAIN timed |-> Get(timed[i].query_time) ])
        all_tables == UNION { ToSet(entries[i].tables_used) : i \in DOMAIN entries }
    IN  [ template |-> norm_sql,
          type |-> get_sql_type(norm_sql),
          count |-> Len(entries),
          avg_query_time |-> IF Len(timed) # 0 THEN RoundDiv(total_time, 100 * Len(timed)) ELSE 0,
          tables_used |-> Sorted(all_tables) ]

\* the SummaryEntry of one group: avg_query_time is round(total_time / count, 4),
\* in units of 0.0001 s
SummaryOf(norm_sql, entries) ==
    LET count == Len(entries)
        timed == Pick(entries, { i \in DOMAIN entries : IsSome(entries[i].query_time) }, 1)
        total_time == SumSeq([ i \in DOMAIN timed |-> Get(timed[i].query_time) ])
        all_tables == UNION { ToSet(entries[i].tables_used) : i \in DOMAIN entries }
    IN  [ template |-> norm_sql,
          type |-> get_sql_type(norm_sql),
          count |-> count,
          avg_query_time |-> IF count # 0 THEN RoundDiv(total_time, 100 * count) ELSE 0,
          tables_used |-> Sorted(all_tables) ]

create_summary_data(raw) ==
    LET sql_groups == GroupBySql(raw, Len(raw))
    IN  [ k \in DOMAIN sql_groups |->
            SummaryOf(sql_groups[k].key, sql_groups[k].entries) ]

----------------------------------------------------------------------------
(* SQLAnalyzer.build_template_to_raw_mapping                               *)

\* "x or 0" and "x or ''" of an optional field
OrZero(o) == IF IsSome(o) THEN Get(o) ELSE 0
OrEmpty(o) == IF IsSome(o) THEN Get(o) ELSE <<>>

\* the detail record appended for one item
TemplateDetail(item) ==
    [ original_sql |-> Get(item.sql),
      query_time |-> OrZero(item.query_time),
      time |-> OrEmpty(item.time),
      user |-> OrEmpty(item.user),
      host |-> OrEmpty(item.host),
      rows_examined |-> OrZero(item.rows_examined),
      rows_sent |-> OrZero(item.rows_sent),
      lock_time |-> OrZero(item.lock_time),
      timestamp |-> OrZero(item.timestamp),
      thread_id |-> OrZero(item.thread_id),
      schema |-> OrEmpty(item.schema),
      tables_used |-> item.tables_used ]

\* template_to_raw after the loop over the first n items: a dict, kept as the
\* sequence of its keys in insertion order, each with its list
RECURSIVE TemplateToRaw(_, _)
TemplateToRaw(raw, n) ==
    IF n = 0 THEN <<>>
    ELSE LET template_to_raw == TemplateToRaw(raw, n - 1)
             item == raw[n]
         IN  IF ~HasSql(item) THEN template_to_raw
             ELSE LET normalized == normalize_sql(Get(item.sql))
                      at == { k \in DOMAIN template_to_raw :
                                template_to_raw[k].key = normalized }
                  IN  IF at = {}
                      THEN Append(template_to_raw,
                                  [ key |-> normalized, details |-> <<TemplateDetail(item)>> ])
                      ELSE [ template_to_raw EXCEPT
                               ![Min(at)].details = Append(@, TemplateDetail(item)) ]

build_template_to_raw_mapping(raw) == TemplateToRaw(raw, Len(raw))

----------------------------------------------------------------------------
(* SQLAnalyzer.calculate_performance_stats.  A dict or a Counter is the     *)
(* sequence of its items in the order of their first insertion.            *)

\* {"error": "無查詢時間資料"}: the result for events without any query time
NoDataMessage == "no query time data"
NoData == [ error |-> NoDataMessage ]

\* a variant that keeps the query times that are true ("if item.query_time"),
\* so that a query time of 0 is dropped
QueryTimes_Truthy(raw) ==
    LET timed == Pick(raw, { i \in DOMAIN raw :
                               IsSome(raw[i].query_time) /\ Get(raw[i].query_time) # 0 }, 1)
    IN  [ i \in DOMAIN timed |-> Get(timed[i].query_time) ]

\* query_times: the query times that are not None, in input order
QueryTimes(raw) ==
    LET timed == Pick(raw, { i \in DOMAIN raw : IsSome(raw[i].query_time) }, 1)
    IN  [ i \in DOMAIN timed |-> Get(timed[i].query_time) ]

\* counter[key] += 1
CounterAdd(counter, key) ==
    LET at == { k \in DOMAIN counter : counter[k].key = key }
    IN  IF at = {} THEN Append(counter, [ key |-> key, value |-> 1 ])
        ELSE [ counter EXCEPT ![Min(at)].value = @ + 1 ]

\* the Counter of the first n of a sequence of keys
RECURSIVE Counter(_, _)
Counter(keys, n) ==
    IF n = 0 THEN <<>> ELSE CounterAdd(Counter(keys, n - 1), keys[n])

\* a variant that leaves the counter in the order of first insertion
most_common_Unsorted(counter) == counter

\* Counter.most_common(): by count, the larger first; equal counts stay in the
\* order of their first insertion
RECURSIVE most_common(_)
most_common(counter) ==
    IF Len(counter) = 0 THEN <<>>
    ELSE LET top == Min({ k \in DOMAIN counter :
                            \A j \in DOMAIN counter : counter[j].value <= counter[k].value })
         IN  <<counter[top]>> \o most_common(Pick(counter, DOMAIN counter \ {top}, 1))

\* q[:n]
Take(q, n) == SubSeq(q, 1, IF n < Len(q) THEN n ELSE Len(q))

\* time_by_type[key].append(value)
ListAdd(lists, key, value) ==
    LET at == { k \in DOMAIN lists : lists[k].key = key }
    IN  IF at = {} THEN Append(lists, [ key |-> key, value |-> <<value>> ])
        ELSE [ lists EXCEPT ![Min(at)].value = Append(@, value) ]

\* "if item.query_time:" holds of a time that is neither None nor 0
HasQueryTime(item) == IsSome(item.query_time) /\ Get(item.query_time) # 0

\* time_by_type after the loop over the first n items: the query times of
\* the items that have SQL text and a query time, by statement type
RECURSIVE TimeByType(_, _)
TimeByType(raw, n) ==
    IF n = 0 THEN <<>>
    ELSE IF HasSql(raw[n]) /\ HasQueryTime(raw[n])
         THEN ListAdd(TimeByType(raw, n - 1), get_sql_type(Get(raw[n].sql)),
                      Get(raw[n].query_time))
         ELSE TimeByType(raw, n - 1)

\* the statement types of the items that have SQL text, in input order
SqlTypes(raw) ==
    LET with_sql == Pick(raw, { i \in DOMAIN raw : HasSql(raw[i]) }, 1)
    IN  [ i \in DOMAIN with_sql |-> get_sql_type(Get(with_sql[i].sql)) ]

\* the users of the items whose user is neither None nor empty, in input order
Users(raw) ==
    LET with_user == Pick(raw, { i \in DOMAIN raw :
                                   IsSome(raw[i].user) /\ Get(raw[i].user) # <<>> }, 1)
    IN  [ i \in DOMAIN with_user |-> Get(with_user[i].user) ]

\* the tables of the first n items, every use of every item, in input order
RECURSIVE TableUses(_, _)
TableUses(raw, n) ==
    IF n = 0 THEN <<>> ELSE TableUses(raw, n - 1) \o raw[n].tables_used

\* the keys of time_ranges
TimeRangeNames == << "0-1s", "1-5s", "5-10s", "10-30s", "30s+" >>

\* a variant whose upper bounds are inclusive
TimeRange_UpperInclusive(qt) ==
    IF qt <= 1000000 THEN "0-1s"
    ELSE IF qt <= 5000000 THEN "1-5s"
    ELSE IF qt <= 10000000 THEN "5-10s"
    ELSE IF qt <= 30000000 THEN "10-30s"
    ELSE "30s+"

\* the time range of a query time (in microseconds): the chain of "if qt < 1",
\* "elif qt < 5", "elif qt < 10", "elif qt < 30", "else"
TimeRange(qt) ==
    IF qt < 1000000 THEN "0-1s"
    ELSE IF qt < 5000000 THEN "1-5s"
    ELSE IF qt < 10000000 THEN "5-10s"
    ELSE IF qt < 30000000 THEN "10-30s"
    ELSE "30s+"

\* time_ranges after the loop over query_times
TimeRanges(query_times) ==
    [ name \in ToSet(TimeRangeNames) |->
        Cardinality({ i \in DOMAIN query_times : TimeRange(query_times[i]) = name }) ]

\* sorted(times): the times in ascending order
RECURSIVE SortedTimes(_)
SortedTimes(times) ==
    IF Len(times) = 0 THEN <<>>
    ELSE LET least == Min({ k \in DOMAIN times : \A j \in DOMAIN times : times[k] <= times[j] })
         IN  <<times[least]>> \o SortedTimes(Pick(times, DOMAIN times \ {least}, 1))

\* round(statistics.mean(times), 4), in units of 0.0001 s
MeanOf(times) == RoundDiv(SumSeq(times), 100 * Len(times))

\* round(statistics.median(times), 4): the middle of the sorted times, the
\* mean of the two middle ones for an even number of times
MedianOf(times) ==
    LET data == SortedTimes(times)
        n == Len(data)
    IN  IF n % 2 = 1 THEN RoundDiv(data[(n + 1) \div 2], 100)
        ELSE RoundDiv(data[n \div 2] + data[n \div 2 + 1], 200)

\* round(max(times), 4) and round(min(times), 4)
MaxOf(times) == RoundDiv(Max(ToSet(times)), 100)
MinOf(times) == RoundDiv(Min(ToSet(times)), 100)

\* the "type_performance" comprehension: one entry for each type of
\* time_by_type whose list is not empty
TypePerformance(time_by_type) ==
    LET kept == Pick(time_by_type,
                     { k \in DOMAIN time_by_type : Len(time_by_type[k].value) > 0 }, 1)
    IN  [ k \in DOMAIN kept |->
            [ key |-> kept[k].key,
              value |-> [ count |-> Len(kept[k].value),
                          avg_time |-> MeanOf(kept[k].value),
                          max_time |-> MaxOf(kept[k].value) ] ] ]

\* the statistics of events of which query_times are the present query times
PerformanceStats(raw, query_times) ==
    [ basic_stats |->
        [ total_queries |-> Len(raw),
          avg_query_time |-> MeanOf(query_times),
          median_query_time |-> MedianOf(query_times),
          max_query_time |-> MaxOf(query_times),
          min_query_time |-> MinOf(query_times) ],
      type_stats |-> most_common(Counter(SqlTypes(raw), Len(SqlTypes(raw)))),
      time_ranges |-> TimeRanges(query_times),
      user_stats |-> Take(most_common(Counter(Users(raw), Len(Users(raw)))), 10),
      table_stats |->
          Take(most_common(Counter(TableUses(raw, Len(raw)),
                                   Len(TableUses(raw, Len(raw))))), 20),
      type_performance |-> TypePerformance(TimeByType(raw, Len(raw))) ]

\* a variant that takes a query time of 0 for a missing one
calculate_performance_stats_ZeroIsUntimed(raw) ==
    IF \A i \in DOMAIN raw : ~HasQueryTime(raw[i])
    THEN NoData
    ELSE PerformanceStats(raw, QueryTimes(raw))

\* SQLAnalyzer.calculate_performance_stats
calculate_performance_stats(raw) ==
    IF Len(QueryTimes(raw)) = 0 THEN NoData
    ELSE PerformanceStats(raw, QueryTimes(raw))

----------------------------------------------------------------------------
(* The pipeline: a log text is parsed, the entries are summarized, indexed *)
(* by template and analysed.  The log texts are made of an optional        *)
(* preamble and at most MaxBlocks blocks, with or without the final        *)
(* newline.                                                                *)

MaxBlocks == 2

\* a timed SELECT with mixed-case table names:
\*   # Time: t1\n# Query_time: 0.50007  Lock_time: 0.1  Rows_sent: 1  Rows_
\*   examined: 2\nSET timestamp=1;\nSELECT * FROM Orders o JOIN Customers c
\*    ON o.c = c.id WHERE o.id = 5;\n
BlockOrdersA ==
    << "#"," ","T","i","m","e",":"," ","t","1","\n","#"," ","Q","u","e","r",
       "y","_","t","i","m","e",":"," ","0",".","5","0","0","0","7"," "," ",
       "L","o","c","k","_","t","i","m","e",":"," ","0",".","1"," "," ","R",
       "o","w","s","_","s","e","n","t",":"," ","1"," "," ","R","o","w","s",
       "_","e","x","a","m","i","n","e","d",":"," ","2","\n","S","E","T"," ",
       "t","i","m","e","s","t","a","m","p","=","1",";","\n","S","E","L","E",
       "C","T"," ","*"," ","F","R","O","M"," ","O","r","d","e","r","s"," ",
       "o"," ","J","O","I","N"," ","C","u","s","t","o","m","e","r","s"," ",
       "c"," ","O","N"," ","o",".","c"," ","="," ","c",".","i","d"," ","W",
       "H","E","R","E"," ","o",".","i","d"," ","="," ","5",";","\n" >>

\* the same statement in lower case with another literal and time:
\*   # Time: t2\n# Query_time: 2.0  Lock_time: 0.0  Rows_sent: 1  Rows_exam
\*   ined: 2\nSET timestamp=2;\nselect * from orders o  join customers c on
\*    o.c = c.id where o.id = 9;\n
BlockOrdersB ==
    << "#"," ","T","i","m","e",":"," ","t","2","\n","#"," ","Q","u","e","r",
       "y","_","t","i","m","e",":"," ","2",".","0"," "," ","L","o","c","k",
       "_","t","i","m","e",":"," ","0",".","0"," "," ","R","o","w","s","_",
       "s","e","n","t",":"," ","1"," "," ","R","o","w","s","_","e","x","a",
       "m","i","n","e","d",":"," ","2","\n","S","E","T"," ","t","i","m","e",
       "s","t","a","m","p","=","2",";","\n","s","e","l","e","c","t"," ","*",
       " ","f","r","o","m"," ","o","r","d","e","r","s"," ","o"," "," ","j",
       "o","i","n"," ","c","u","s","t","o","m","e","r","s"," ","c"," ","o",
       "n"," ","o",".","c"," ","="," ","c",".","i","d"," ","w","h","e","r",
       "e"," ","o",".","i","d"," ","="," ","9",";","\n" >>

\* the same statement with no timing line:
\*   # Time: t3\nSET timestamp=3;\nSELECT * FROM Orders o JOIN Customers c 
\*   ON o.c = c.id WHERE o.id = 7;\n
BlockOrdersUntimed ==
    << "#"," ","T","i","m","e",":"," ","t","3","\n","S","E","T"," ","t","i",
       "m","e","s","t","a","m","p","=","3",";","\n","S","E","L","E","C","T",
       " ","*"," ","F","R","O","M"," ","O","r","d","e","r","s"," ","o"," ",
       "J","O","I","N"," ","C","u","s","t","o","m","e","r","s"," ","c"," ",
       "O","N"," ","o",".","c"," ","="," ","c",".","i","d"," ","W","H","E",
       "R","E"," ","o",".","i","d"," ","="," ","7",";","\n" >>

\* a block with no SET timestamp line:
\*   # Time: t4\n# Query_time: 12.0  Lock_time: 0.0  Rows_sent: 1  Rows_exa
\*   mined: 2\n
BlockNoSql ==
    << "#"," ","T","i","m","e",":"," ","t","4","\n","#"," ","Q","u","e","r",
       "y","_","t","i","m","e",":"," ","1","2",".","0"," "," ","L","o","c",
       "k","_","t","i","m","e",":"," ","0",".","0"," "," ","R","o","w","s",
       "_","s","e","n","t",":"," ","1"," "," ","R","o","w","s","_","e","x",
       "a","m","i","n","e","d",":"," ","2","\n" >>

\* a SET timestamp line followed by a blank line only:
\*   # Time: t5\nSET timestamp=5;\n\n
BlockEmptySql ==
    << "#"," ","T","i","m","e",":"," ","t","5","\n","S","E","T"," ","t","i",
       "m","e","s","t","a","m","p","=","5",";","\n","\n" >>

\* two SET timestamp lines in one block:
\*   # Time: t6\nSET timestamp=6;\nUPDATE stock SET n = 1;\nSET timestamp=7
\*   ;\nDELETE FROM stock;\n
BlockTwoMarkers ==
    << "#"," ","T","i","m","e",":"," ","t","6","\n","S","E","T"," ","t","i",
       "m","e","s","t","a","m","p","=","6",";","\n","U","P","D","A","T","E",
       " ","s","t","o","c","k"," ","S","E","T"," ","n"," ","="," ","1",";",
       "\n","S","E","T"," ","t","i","m","e","s","t","a","m","p","=","7",";",
       "\n","D","E","L","E","T","E"," ","F","R","O","M"," ","s","t","o","c",
       "k",";","\n" >>

\* a table referenced twice, tables out of order:
\*   # Time: t7\n# Query_time: 0.00013  Lock_time: 0.0  Rows_sent: 1  Rows_
\*   examined: 2\nSET timestamp=8;\nSELECT 1 FROM zeta z JOIN alpha a JOIN 
\*   zeta y;\n
BlockRepeatedTable ==
    << "#"," ","T","i","m","e",":"," ","t","7","\n","#"," ","Q","u","e","r",
       "y","_","t","i","m","e",":"," ","0",".","0","0","0","1","3"," "," ",
       "L","o","c","k","_","t","i","m","e",":"," ","0",".","0"," "," ","R",
       "o","w","s","_","s","e","n","t",":"," ","1"," "," ","R","o","w","s",
       "_","e","x","a","m","i","n","e","d",":"," ","2","\n","S","E","T"," ",
       "t","i","m","e","s","t","a","m","p","=","8",";","\n","S","E","L","E",
       "C","T"," ","1"," ","F","R","O","M"," ","z","e","t","a"," ","z"," ",
       "J","O","I","N"," ","a","l","p","h","a"," ","a"," ","J","O","I","N",
       " ","z","e","t","a"," ","y",";","\n" >>

\* a timing line whose query time is no number:
\*   # Time: t8\n# Query_time: 1.2.3  Lock_time: 0.0  Rows_sent: 1  Rows_ex
\*   amined: 2\nSET timestamp=9;\nSELECT 1;\n
BlockBadNumber ==
    << "#"," ","T","i","m","e",":"," ","t","8","\n","#"," ","Q","u","e","r",
       "y","_","t","i","m","e",":"," ","1",".","2",".","3"," "," ","L","o",
       "c","k","_","t","i","m","e",":"," ","0",".","0"," "," ","R","o","w",
       "s","_","s","e","n","t",":"," ","1"," "," ","R","o","w","s","_","e",
       "x","a","m","i","n","e","d",":"," ","2","\n","S","E","T"," ","t","i",
       "m","e","s","t","a","m","p","=","9",";","\n","S","E","L","E","C","T",
       " ","1",";","\n" >>

\* every annotation line but the thread line:
\*   # Time: t9\n# User@Host: app[app] @  [db1]\n# Query_time: 1.0  Lock_ti
\*   me: 0.0  Rows_sent: 0  Rows_examined: 3\n# Rows_affected: 3  Bytes_sen
\*   t: 11\nSET timestamp=10;\nUPDATE stock SET n = 2;\n
BlockNoThread ==
    << "#"," ","T","i","m","e",":"," ","t","9","\n","#"," ","U","s","e","r",
       "@","H","o","s","t",":"," ","a","p","p","[","a","p","p","]"," ","@",
       " "," ","[","d","b","1","]","\n","#"," ","Q","u","e","r","y","_","t",
       "i","m","e",":"," ","1",".","0"," "," ","L","o","c","k","_","t","i",
       "m","e",":"," ","0",".","0"," "," ","R","o","w","s","_","s","e","n",
       "t",":"," ","0"," "," ","R","o","w","s","_","e","x","a","m","i","n",
       "e","d",":"," ","3","\n","#"," ","R","o","w","s","_","a","f","f","e",
       "c","t","e","d",":"," ","3"," "," ","B","y","t","e","s","_","s","e",
       "n","t",":"," ","1","1","\n","S","E","T"," ","t","i","m","e","s","t",
       "a","m","p","=","1","0",";","\n","U","P","D","A","T","E"," ","s","t",
       "o","c","k"," ","S","E","T"," ","n"," ","="," ","2",";","\n" >>

\* the thread line and nothing else:
\*   # Time: t10\n# Thread_id: 8  Schema: shop  QC_hit: No\n
BlockThreadOnly ==
    << "#"," ","T","i","m","e",":"," ","t","1","0","\n","#"," ","T","h","r",
       "e","a","d","_","i","d",":"," ","8"," "," ","S","c","h","e","m","a",
       ":"," ","s","h","o","p"," "," ","Q","C","_","h","i","t",":"," ","N",
       "o","\n" >>

Blocks ==
    { BlockOrdersA, BlockOrdersB, BlockOrdersUntimed, BlockNoSql, BlockEmptySql,
      BlockTwoMarkers, BlockRepeatedTable, BlockBadNumber, BlockNoThread,
      BlockThreadOnly }

\* what a log holds before its first record: nothing, a blank line, or the
\* server's banner
Preambles == { <<>>, <<"\n">>, <<"T","c","p"," ","p","o","r","t",":"," ","0","\n">> }

\* the text without its final newline
Chop(text) ==
    IF Len(text) > 0 /\ text[Len(text)] = "\n" THEN SubSeq(text, 1, Len(text) - 1) ELSE text

LogTexts ==
    LET whole == { p \o t : p \in Preambles, t \in TextsOf(Blocks, MaxBlocks) }
    IN  whole \cup { Chop(t) : t \in whole }

Init ==
    /\ pc = "start"
    /\ log_content \in LogTexts
    /\ raw_data = None /\ summary_data = None
    /\ template_to_raw_dict = None /\ stats = None
    /\ sqlA = <<>> /\ sqlB = <<>> /\ tplA = None /\ tplB = None /\ tplAA = None
    /\ type_of_sql = None /\ type_of_template = None
    /\ DataManagerInit

\* raw_data = self.log_parser.parse_slow_log(log_content)
Parse ==
    /\ pc = "start"
    /\ \E result \in { parse_slow_log(log_content) } :
          IF result.raised
          THEN pc' = "raised" /\ UNCHANGED raw_data
          ELSE pc' = "parsed" /\ raw_data' = Some(result.entries)
    /\ UNCHANGED <<log_content, summary_data, template_to_raw_dict, stats, normVars, dmVars>>

\* summary_data = self.sql_analyzer.create_summary_data(raw_data)
Summarize ==
    /\ pc = "parsed"
    /\ summary_data' = Some(create_summary_data(Get(raw_data)))
    /\ pc' = "summarized"
    /\ UNCHANGED <<log_content, raw_data, template_to_raw_dict, stats, normVars, dmVars>>

\* template_to_raw_dict = self.sql_analyzer.build_template_to_raw_mapping(raw_data)
BuildMapping ==
    /\ pc = "summarized"
    /\ template_to_raw_dict = None
    /\ template_to_raw_dict' = Some(build_template_to_raw_mapping(Get(raw_data)))
    /\ UNCHANGED <<pc, log_content, raw_data, summary_data, stats, normVars, dmVars>>

\* stats = analyzer.calculate_performance_stats(data_manager.current_analysis.raw_data)
Stats ==
    /\ pc = "summarized"
    /\ IsSome(template_to_raw_dict)
    /\ stats = None
    /\ stats' = Some(calculate_performance_stats(Get(raw_data)))
    /\ UNCHANGED <<pc, log_content, raw_data, summary_data, template_to_raw_dict, normVars, dmVars>>

Next == Parse \/ Summarize \/ BuildMapping \/ Stats

Spec == Init /\ [][Next]_vars

----------------------------------------------------------------------------
(* The analysis of given events: the events are a list of QueryEntry as     *)
(* load_analysis_data reads it from raw_data.json, of at most MaxStatEvents *)
(* entries; the query times lie on both sides of every limit of the time   *)
(* ranges.                                                                 *)

MaxStatEvents == 3

\* a QueryEntry with these fields, every other field None
Event(query_time, sql, user, tables_used) ==
    [ EmptyEntry EXCEPT !.query_time = query_time, !.sql = sql, !.user = user,
                        !.tables_used = tables_used ]

SqlSelect1 == <<"S","E","L","E","C","T"," ","1">>
SqlSelect2FromT == <<"s","e","l","e","c","t"," ","2"," ","f","r","o","m"," ","t">>
SqlUpdate3 == <<"U","P","D","A","T","E"," ","t"," ","S","E","T"," ","a","=","3">>
SqlUpdate4 == <<"U","P","D","A","T","E"," ","t"," ","S","E","T"," ","a","=","4">>
SqlCall == <<"C","A","L","L"," ","p","(",")">>
UserApp == <<"a","p","p">>
UserRoot == <<"r","o","o","t">>

StatEvents ==
    { Event(None, Some(SqlSelect1), None, <<>>),
      Event(Some(0), Some(SqlSelect2FromT), Some(UserApp), << <<"t">> >>),
      Event(Some(500000), None, Some(UserApp), <<>>),
      Event(Some(1000000), Some(SqlUpdate3), Some(UserRoot), <<>>),
      Event(Some(2000000), Some(SqlSelect1), Some(<<>>), <<>>),
      Event(Some(5000000), Some(<<>>), None, <<>>),
      Event(Some(10000000), Some(SqlCall), Some(UserRoot), <<>>),
      Event(Some(12000000), Some(SqlSelect2FromT), None, << <<"t">> >>),
      Event(Some(30000000), Some(SqlUpdate4), Some(UserApp), <<>>) }

EventLists == TextsOf({ <<e>> : e \in StatEvents }, MaxStatEvents)

\* the number of distinct users of a wide list: more than user_stats keeps,
\* with two tables each, more than table_stats keeps
MaxWideUsers == 12

WideUser(k) == << "u", LowerSeq[k] >>
WideTable(k) == << "t", LowerSeq[k] >>

\* event i of the wide list that starts with user number first: the users
\* come one after the other, each with two tables of its own, and the events
\* after the last user repeat the last users, the last one first
WideEvent(i, first) ==
    LET at == IF i <= MaxWideUsers THEN i ELSE 2 * MaxWideUsers + 1 - i
        k == ((at + first - 2) % MaxWideUsers) + 1
    IN  Event(Some(2000000), None, Some(WideUser(k)),
              << WideTable(k), WideTable(k + MaxWideUsers) >>)

\* the wide lists: every first user, with no, one or two repeated users
WideLists ==
    { [ i \in 1..(MaxWideUsers + repeated) |-> WideEvent(i, first) ] :
        first \in 1..MaxWideUsers, repeated \in 0..2 }

StatsInit ==
    /\ pc = "parsed"
    /\ log_content = <<>>
    /\ raw_data \in { Some(events) : events \in EventLists \cup WideLists }
    /\ summary_data = None /\ template_to_raw_dict = None /\ stats = None
    /\ sqlA = <<>> /\ sqlB = <<>> /\ tplA = None /\ tplB = None /\ tplAA = None
    /\ type_of_sql = None /\ type_of_template = None
    /\ DataManagerInit

StatsNext == Summarize \/ BuildMapping \/ Stats

SpecStats == StatsInit /\ [][StatsNext]_vars

----------------------------------------------------------------------------
(* DataManager.  An analysis directory is a record of its files, each       *)
(* absent (None) or holding what json.dump wrote.  Every call is one step: *)
(* the request handlers are coroutines that call the DataManager without   *)
(* awaiting anything in between, so the event loop runs each call to its   *)
(* end.  A write of save_analysis may fail with an OSError; removing a     *)
(* directory succeeds.                                                     *)

\* a variant that writes 0 for a number the entry does not have
_query_entry_to_dict_ZeroForNull(entry) ==
    LET Number(o) == IF IsSome(o) THEN o ELSE Some(0)
    IN  [ time |-> entry.time, user |-> entry.user, host |-> entry.host,
          thread_id |-> Number(entry.thread_id), schema |-> entry.schema,
          qc_hit |-> entry.qc_hit, query_time |-> Number(entry.query_time),
          lock_time |-> Number(entry.lock_time),
          rows_sent |-> Number(entry.rows_sent),
          rows_examined |-> Number(entry.rows_examined),
          rows_affected |-> Number(entry.rows_affected),
          bytes_sent |-> Number(entry.bytes_sent),
          timestamp |-> Number(entry.timestamp),
          sql |-> entry.sql, tables_used |-> entry.tables_used ]

\* DataManager._query_entry_to_dict
_query_entry_to_dict(entry) ==
    [ time |-> entry.time, user |-> entry.user, host |-> entry.host,
      thread_id |-> entry.thread_id, schema |-> entry.schema,
      qc_hit |-> entry.qc_hit, query_time |-> entry.query_time,
      lock_time |-> entry.lock_time, rows_sent |-> entry.rows_sent,
      rows_examined |-> entry.rows_examined, rows_affected |-> entry.rows_affected,
      bytes_sent |-> entry.bytes_sent, timestamp |-> entry.timestamp,
      sql |-> entry.sql, tables_used |-> entry.tables_used ]

\* QueryEntry(**item): a key that the dict lacks takes the field's default
QueryEntry(item) ==
    LET Field(key) == IF key \in DOMAIN item THEN item[key] ELSE None
    IN  [ time |-> Field("time"), user |-> Field("user"), host |-> Field("host"),
          thread_id |-> Field("thread_id"), schema |-> Field("schema"),
          qc_hit |-> Field("qc_hit"), query_time |-> Field("query_time"),
          lock_time |-> Field("lock_time"), rows_sent |-> Field("rows_sent"),
          rows_examined |-> Field("rows_examined"),
          rows_affected |-> Field("rows_affected"),
          bytes_sent |-> Field("bytes_sent"), timestamp |-> Field("timestamp"),
          sql |-> Field("sql"),
          tables_used |-> IF "tables_used" \in DOMAIN item THEN item.tables_used ELSE <<>> ]

\* DataManager._summary_entry_to_dict
_summary_entry_to_dict(entry) ==
    [ template |-> entry.template, type |-> entry.type, count |-> entry.count,
      avg_query_time |-> entry.avg_query_time, tables_used |-> entry.tables_used ]

\* SummaryEntry(**item): tables_used defaults to the empty list
SummaryEntry(item) ==
    [ template |-> item.template, type |-> item.type, count |-> item.count,
      avg_query_time |-> item.avg_query_time,
      tables_used |-> IF "tables_used" \in DOMAIN item THEN item.tables_used ELSE <<>> ]

\* the list comprehensions over the entries and over the dicts read back
RawDataDict(raw) == [ i \in DOMAIN raw |-> _query_entry_to_dict(raw[i]) ]
SummaryDataDict(summary) == [ i \in DOMAIN summary |-> _summary_entry_to_dict(summary[i]) ]
QueryEntries(raw_dict_list) == [ i \in DOMAIN raw_dict_list |-> QueryEntry(raw_dict_list[i]) ]
SummaryEntries(summary_dict_list) ==
    [ i \in DOMAIN summary_dict_list |-> SummaryEntry(summary_dict_list[i]) ]

\* AnalysisMetadata and DataManager._metadata_to_dict; upload_time is the
\* clock's reading, which the model does not tell apart
_metadata_to_dict(original_filename, total_queries, total_templates, merge_info) ==
    [ original_filename |-> original_filename, upload_time |-> "now",
      total_queries |-> total_queries, total_templates |-> total_templates,
      merge_info |-> merge_info ]

\* the files of the directory that mkdir creates
EmptyDir == [ originals |-> {}, raw_data |-> None, summary |-> None, metadata |-> None ]

\* normalized_sql_summary.py: the entries of normalized_sql_summary.json, which
\* have no tables_used key
LegacySummary(data) ==
    LET summary == create_summary_data(data)
    IN  [ k \in DOMAIN summary |->
            [ template |-> summary[k].template, type |-> summary[k].type,
              count |-> summary[k].count,
              avg_query_time |-> summary[k].avg_query_time ] ]

\* parsed_slow_log.py and normalized_sql_summary.py run on a log: the two data
\* files of the default analysis in the working directory
LegacyFiles(content) ==
    LET parsed_entries == parse_slow_log(content).entries
    IN  [ parsed_slow_log |-> RawDataDict(parsed_entries),
          normalized_sql_summary |-> LegacySummary(parsed_entries) ]

\* what the constructor of CurrentAnalysis is called with in load_analysis_data
CurrentAnalysis(name, summary, raw) ==
    [ name |-> name, summary_data |-> summary,
      template_to_raw_dict |-> build_template_to_raw_mapping(raw),
      raw_data |-> raw ]

\* a variant that replaces the fields one by one and stops before the last:
\* the new name, summary and events with the template index of the old
\* dataset
load_analysis_data_KeepsIndex(dirs, current, files, analysis_name) ==
    IF analysis_name = DefaultName
    THEN [ error |-> None,
           current_analysis |->
             [ name |-> analysis_name, summary_data |-> <<>>,
               template_to_raw_dict |-> current.template_to_raw_dict,
               raw_data |-> <<>> ] ]
    ELSE IF analysis_name \notin DOMAIN dirs \/ dirs[analysis_name] = None
    THEN [ error |-> Some("FileNotFoundError"), current_analysis |-> current ]
    ELSE [ error |-> None,
           current_analysis |->
             [ name |-> analysis_name,
               summary_data |-> SummaryEntries(Get(Get(dirs[analysis_name]).summary)),
               template_to_raw_dict |-> current.template_to_raw_dict,
               raw_data |-> QueryEntries(Get(Get(dirs[analysis_name]).raw_data)) ] ]

\* a variant that sets the name before it reads the files, so that a failing
\* call leaves the new name with the old data
load_analysis_data_NameFirst(dirs, current, files, analysis_name) ==
    IF analysis_name = DefaultName
    THEN [ error |-> None,
           current_analysis |->
             IF IsSome(files)
             THEN CurrentAnalysis(analysis_name,
                                  SummaryEntries(Get(files).normalized_sql_summary),
                                  QueryEntries(Get(files).parsed_slow_log))
             ELSE CurrentAnalysis(analysis_name, <<>>, <<>>) ]
    ELSE IF \/ analysis_name \notin DOMAIN dirs \/ dirs[analysis_name] = None
            \/ Get(dirs[analysis_name]).summary = None
            \/ Get(dirs[analysis_name]).raw_data = None
    THEN [ error |-> Some("FileNotFoundError"),
           current_analysis |-> [ current EXCEPT !.name = analysis_name ] ]
    ELSE [ error |-> None,
           current_analysis |->
             CurrentAnalysis(analysis_name,
                             SummaryEntries(Get(Get(dirs[analysis_name]).summary)),
                             QueryEntries(Get(Get(dirs[analysis_name]).raw_data))) ]

\* DataManager.load_analysis_data: the exception raised (None if none) and the
\* current analysis after the call; files is what the working directory holds
\* of the default analysis
load_analysis_data(dirs, current, files, analysis_name) ==
    IF analysis_name = DefaultName
    THEN [ error |-> None,
           current_analysis |->
             IF IsSome(files)
             THEN CurrentAnalysis(analysis_name,
                                  SummaryEntries(Get(files).normalized_sql_summary),
                                  QueryEntries(Get(files).parsed_slow_log))
             ELSE CurrentAnalysis(analysis_name, <<>>, <<>>) ]
    ELSE IF analysis_name \notin DOMAIN dirs \/ dirs[analysis_name] = None
    THEN [ error |-> Some("FileNotFoundError"), current_analysis |-> current ]
    ELSE LET analysis_path == Get(dirs[analysis_name])
         IN  IF analysis_path.summary = None \/ analysis_path.raw_data = None
             THEN [ error |-> Some("FileNotFoundError"), current_analysis |-> current ]
             ELSE [ error |-> None,
                    current_analysis |->
                      CurrentAnalysis(analysis_name,
                                      SummaryEntries(Get(analysis_path.summary)),
                                      QueryEntries(Get(analysis_path.raw_data))) ]

\* the files save_analysis writes, in the order it writes them, and the write
\* at which an OSError is raised ("none" if every write succeeds)
WriteSteps == << "original", "raw_data.json", "summary.json", "metadata.json" >>
WriteFailures == {"none"} \cup { WriteSteps[i] : i \in DOMAIN WriteSteps }

\* the exception raised inside the try block of save_analysis, None if none:
\* the original is written before the log is parsed, the results after
SaveError(upload, failure) ==
    IF failure = "original" THEN Some("OSError")
    ELSE IF upload.parsed.raised THEN Some("ValueError")
    ELSE IF failure # "none" THEN Some("OSError")
    ELSE None

\* the number of files written when save_analysis leaves its try block
WritesDone(upload, failure) ==
    IF failure = "original" THEN 0
    ELSE IF upload.parsed.raised THEN 1
    ELSE IF failure = "raw_data.json" THEN 1
    ELSE IF failure = "summary.json" THEN 2
    ELSE IF failure = "metadata.json" THEN 3
    ELSE 4

\* the directory after mkdir(exist_ok=True) and the first n writes
DirAfterWrites(before, upload, n) ==
    [ originals |->
        IF n >= 1
        THEN { file \in before.originals : file.filename # upload.original_filename }
                \cup { [ filename |-> upload.original_filename,
                         content |-> upload.log_content ] }
        ELSE before.originals,
      raw_data |->
        IF n >= 2 THEN Some(RawDataDict(upload.parsed.entries)) ELSE before.raw_data,
      summary |->
        IF n >= 3
        THEN Some(SummaryDataDict(upload.summary_data))
        ELSE before.summary,
      metadata |->
        IF n >= 4
        THEN Some(_metadata_to_dict(upload.original_filename,
                                    Len(upload.parsed.entries),
                                    Len(upload.summary_data),
                                    None))
        ELSE before.metadata ]

\* analysis_path.mkdir(exist_ok=True): the directory that is there, or a new one
DirBefore(dirs, analysis_name) ==
    IF dirs[analysis_name] = None THEN EmptyDir ELSE Get(dirs[analysis_name])

\* a variant without the except branch: a failure leaves the files written so
\* far
save_analysis_KeepsPartial(dirs, analysis_name, upload, failure) ==
    [ error |-> SaveError(upload, failure),
      data_dir |->
        [ dirs EXCEPT ![analysis_name] =
            Some(DirAfterWrites(DirBefore(dirs, analysis_name), upload,
                                WritesDone(upload, failure))) ] ]

\* DataManager.save_analysis of an upload, which is the name and the text of
\* the log file together with parse_slow_log of the text: the exception raised
\* (None if none) and the data directory after the call.  A failure removes
\* the directory (shutil.rmtree in the except branch), also one that was
\* there before the call.
save_analysis(dirs, analysis_name, upload, failure) ==
    IF IsSome(SaveError(upload, failure))
    THEN [ error |-> SaveError(upload, failure),
           data_dir |-> [ dirs EXCEPT ![analysis_name] = None ] ]
    ELSE [ error |-> None,
           data_dir |->
             [ dirs EXCEPT ![analysis_name] =
                 Some(DirAfterWrites(DirBefore(dirs, analysis_name), upload, 4)) ] ]

\* a variant that removes the directory and leaves the current analysis as
\* it is
delete_analysis_KeepsCurrent(dirs, current, files, analysis_name) ==
    IF analysis_name = DefaultName
    THEN [ error |-> Some("ValueError"), data_dir |-> dirs, current_analysis |-> current ]
    ELSE IF analysis_name \notin DOMAIN dirs \/ dirs[analysis_name] = None
    THEN [ error |-> Some("FileNotFoundError"), data_dir |-> dirs,
           current_analysis |-> current ]
    ELSE [ error |-> None, data_dir |-> [ dirs EXCEPT ![analysis_name] = None ],
           current_analysis |-> current ]

\* DataManager.delete_analysis: the exception raised, the data directory and
\* the current analysis after the call
delete_analysis(dirs, current, files, analysis_name) ==
    IF analysis_name = DefaultName
    THEN [ error |-> Some("ValueError"), data_dir |-> dirs, current_analysis |-> current ]
    ELSE IF analysis_name \notin DOMAIN dirs \/ dirs[analysis_name] = None
    THEN [ error |-> Some("FileNotFoundError"), data_dir |-> dirs,
           current_analysis |-> current ]
    ELSE LET removed == [ dirs EXCEPT ![analysis_name] = None ]
         IN  [ error |-> None,
               data_dir |-> removed,
               current_analysis |->
                 IF current.name = analysis_name
                 THEN load_analysis_data(removed, current, files, DefaultName).current_analysis
                 ELSE current ]

\* the loop of merge_analysis over the first n source names: all_raw_data and
\* source_metadata.  The default analysis is a source only while it is the
\* current one; a source without directory or without raw_data.json is skipped.
RECURSIVE CollectSources(_, _, _, _)
CollectSources(dirs, current, source_files, n) ==
    IF n = 0 THEN [ all_raw_data |-> <<>>, source_metadata |-> <<>> ]
    ELSE
    LET collected == CollectSources(dirs, current, source_files, n - 1)
        source_name == source_files[n]
    IN  IF source_name = DefaultName
        THEN IF current.name = DefaultName
             THEN [ all_raw_data |-> collected.all_raw_data \o current.raw_data,
                    source_metadata |->
                      Append(collected.source_metadata,
                             [ name |-> DefaultName,
                               queries |-> Len(current.raw_data),
                               templates |-> Len(current.summary_data) ]) ]
             ELSE collected
        ELSE IF \/ source_name \notin DOMAIN dirs
                \/ dirs[source_name] = None
                \/ Get(dirs[source_name]).raw_data = None
        THEN collected
        ELSE
        LET source_path == Get(dirs[source_name])
            source_raw_data == QueryEntries(Get(source_path.raw_data))
        IN  [ all_raw_data |-> collected.all_raw_data \o source_raw_data,
              source_metadata |->
                Append(collected.source_metadata,
                       IF IsSome(source_path.metadata)
                       THEN [ name |-> source_name,
                              queries |-> Get(source_path.metadata).total_queries,
                              templates |-> Get(source_path.metadata).total_templates ]
                       ELSE [ name |-> source_name,
                              queries |-> Len(source_raw_data),
                              templates |-> 0 ]) ]

\* a variant of the loop that aggregates every source by itself and joins the
\* summaries, instead of aggregating the joined events
RECURSIVE JoinedSummaries(_, _, _, _)
JoinedSummaries(dirs, current, source_files, n) ==
    IF n = 0 THEN <<>>
    ELSE JoinedSummaries(dirs, current, source_files, n - 1)
         \o create_summary_data(
                CollectSources(dirs, current, <<source_files[n]>>, 1).all_raw_data)

\* a variant of merge_analysis that stores the joined summaries of the sources
merge_analysis_SummariesJoined(dirs, current, merged_name, source_files) ==
    LET collected == CollectSources(dirs, current, source_files, Len(source_files))
        all_raw_data == collected.all_raw_data
        merged_summary == JoinedSummaries(dirs, current, source_files, Len(source_files))
        merged_metadata ==
            _metadata_to_dict("merged_analysis", Len(all_raw_data), Len(merged_summary),
                              Some([ merged_from |-> source_files, merge_time |-> "now",
                                     source_details |-> collected.source_metadata ]))
        merged_path ==
            [ originals |-> {},
              raw_data |-> Some(RawDataDict(all_raw_data)),
              summary |-> Some(SummaryDataDict(merged_summary)),
              metadata |-> Some(merged_metadata) ]
    IN  IF Len(source_files) < 2 \/ dirs[merged_name] # None \/ all_raw_data = <<>>
        THEN [ error |-> Some("ValueError"), data_dir |-> dirs ]
        ELSE [ error |-> None,
               data_dir |-> [ dirs EXCEPT ![merged_name] = Some(merged_path) ] ]

\* a variant that does not look whether the merged name is taken
merge_analysis_Overwrites(dirs, current, merged_name, source_files) ==
    LET collected == CollectSources(dirs, current, source_files, Len(source_files))
        all_raw_data == collected.all_raw_data
        merged_summary == create_summary_data(all_raw_data)
        merged_metadata ==
            _metadata_to_dict("merged_analysis", Len(all_raw_data), Len(merged_summary),
                              Some([ merged_from |-> source_files, merge_time |-> "now",
                                     source_details |-> collected.source_metadata ]))
        merged_path ==
            [ originals |-> {},
              raw_data |-> Some(RawDataDict(all_raw_data)),
              summary |-> Some(SummaryDataDict(merged_summary)),
              metadata |-> Some(merged_metadata) ]
    IN  IF Len(source_files) < 2 \/ all_raw_data = <<>>
        THEN [ error |-> Some("ValueError"), data_dir |-> dirs ]
        ELSE [ error |-> None,
               data_dir |-> [ dirs EXCEPT ![merged_name] = Some(merged_path) ] ]

\* DataManager.merge_analysis: the exception raised (None if none) and the
\* data directory after the call
merge_analysis(dirs, current, merged_name, source_files) ==
    LET collected == CollectSources(dirs, current, source_files, Len(source_files))
        all_raw_data == collected.all_raw_data
        merged_summary == create_summary_data(all_raw_data)
        merged_metadata ==
            _metadata_to_dict("merged_analysis", Len(all_raw_data), Len(merged_summary),
                              Some([ merged_from |-> source_files, merge_time |-> "now",
                                     source_details |-> collected.source_metadata ]))
        merged_path ==
            [ originals |-> {},
              raw_data |-> Some(RawDataDict(all_raw_data)),
              summary |-> Some(SummaryDataDict(merged_summary)),
              metadata |-> Some(merged_metadata) ]
    IN  IF Len(source_files) < 2 \/ dirs[merged_name] # None \/ all_raw_data = <<>>
        THEN [ error |-> Some("ValueError"), data_dir |-> dirs ]
        ELSE [ error |-> None,
               data_dir |-> [ dirs EXCEPT ![merged_name] = Some(merged_path) ] ]

----------------------------------------------------------------------------
(* The data manager in use: analyses are saved, loaded, deleted and merged *)
(* in any order.                                                           *)

MaxSources == 2
MaxEvents == 3

\* two SELECT of one template, 1.0 s and 2.0 s:
\*   # Time: d1\n# User@Host: app[app] @  [10.0.0.1]\n# Thread_id: 7  Schem
\*   a: shop  QC_hit: No\n# Query_time: 1.0  Lock_time: 0.0  Rows_sent: 1  
\*   Rows_examined: 2\n# Rows_affected: 0  Bytes_sent: 64\nSET timestamp=1;
\*   \nSELECT 5 FROM t;\n# Time: d2\n# Query_time: 2.0  Lock_time: 0.0  Row
\*   s_sent: 1  Rows_examined: 2\nSET timestamp=2;\nselect 7 from t;\n
LogFast ==
    << "#"," ","T","i","m","e",":"," ","d","1","\n","#"," ","U","s","e","r",
       "@","H","o","s","t",":"," ","a","p","p","[","a","p","p","]"," ","@",
       " "," ","[","1","0",".","0",".","0",".","1","]","\n","#"," ","T","h",
       "r","e","a","d","_","i","d",":"," ","7"," "," ","S","c","h","e","m",
       "a",":"," ","s","h","o","p"," "," ","Q","C","_","h","i","t",":"," ",
       "N","o","\n","#"," ","Q","u","e","r","y","_","t","i","m","e",":"," ",
       "1",".","0"," "," ","L","o","c","k","_","t","i","m","e",":"," ","0",
       ".","0"," "," ","R","o","w","s","_","s","e","n","t",":"," ","1"," ",
       " ","R","o","w","s","_","e","x","a","m","i","n","e","d",":"," ","2",
       "\n","#"," ","R","o","w","s","_","a","f","f","e","c","t","e","d",":",
       " ","0"," "," ","B","y","t","e","s","_","s","e","n","t",":"," ","6",
       "4","\n","S","E","T"," ","t","i","m","e","s","t","a","m","p","=","1",
       ";","\n","S","E","L","E","C","T"," ","5"," ","F","R","O","M"," ","t",
       ";","\n","#"," ","T","i","m","e",":"," ","d","2","\n","#"," ","Q","u",
       "e","r","y","_","t","i","m","e",":"," ","2",".","0"," "," ","L","o",
       "c","k","_","t","i","m","e",":"," ","0",".","0"," "," ","R","o","w",
       "s","_","s","e","n","t",":"," ","1"," "," ","R","o","w","s","_","e",
       "x","a","m","i","n","e","d",":"," ","2","\n","S","E","T"," ","t","i",
       "m","e","s","t","a","m","p","=","2",";","\n","s","e","l","e","c","t",
       " ","7"," ","f","r","o","m"," ","t",";","\n" >>

\* a SELECT of the same template, 6.0 s:
\*   # Time: d3\n# Query_time: 6.0  Lock_time: 0.0  Rows_sent: 1  Rows_exam
\*   ined: 2\nSET timestamp=3;\nSELECT  9 FROM t;\n
LogSlow ==
    << "#"," ","T","i","m","e",":"," ","d","3","\n","#"," ","Q","u","e","r",
       "y","_","t","i","m","e",":"," ","6",".","0"," "," ","L","o","c","k",
       "_","t","i","m","e",":"," ","0",".","0"," "," ","R","o","w","s","_",
       "s","e","n","t",":"," ","1"," "," ","R","o","w","s","_","e","x","a",
       "m","i","n","e","d",":"," ","2","\n","S","E","T"," ","t","i","m","e",
       "s","t","a","m","p","=","3",";","\n","S","E","L","E","C","T"," "," ",
       "9"," ","F","R","O","M"," ","t",";","\n" >>

\* a timing line whose query time is no number:
\*   # Time: d5\n# Query_time: 1.2.3  Lock_time: 0.0  Rows_sent: 1  Rows_ex
\*   amined: 2\nSET timestamp=5;\nSELECT 1;\n
LogBroken ==
    << "#"," ","T","i","m","e",":"," ","d","5","\n","#"," ","Q","u","e","r",
       "y","_","t","i","m","e",":"," ","1",".","2",".","3"," "," ","L","o",
       "c","k","_","t","i","m","e",":"," ","0",".","0"," "," ","R","o","w",
       "s","_","s","e","n","t",":"," ","1"," "," ","R","o","w","s","_","e",
       "x","a","m","i","n","e","d",":"," ","2","\n","S","E","T"," ","t","i",
       "m","e","s","t","a","m","p","=","5",";","\n","S","E","L","E","C","T",
       " ","1",";","\n" >>

\* the log the default data files were made from: an untimed CALL:
\*   # Time: d6\nSET timestamp=6;\nCALL p();\n
LogDefault ==
    << "#"," ","T","i","m","e",":"," ","d","6","\n","S","E","T"," ","t","i",
       "m","e","s","t","a","m","p","=","6",";","\n","C","A","L","L"," ","p",
       "(",")",";","\n" >>

\* an uploaded file: its name, its text and, computed once, the results of
\* self.log_parser.parse_slow_log(log_content) and of
\* self.sql_analyzer.create_summary_data(raw_data)
Upload(original_filename, content) ==
    [ original_filename |-> original_filename, log_content |-> content,
      parsed |-> parse_slow_log(content),
      summary_data |-> create_summary_data(parse_slow_log(content).entries) ]

\* the uploads that are made: the names they are stored under and the files
Uploads ==
    { <<"a", Upload("fast.log", LogFast)>>, <<"a", Upload("broken.log", LogBroken)>>,
      <<"b", Upload("slow.log", LogSlow)>> }

\* the default analysis' data files in the working directory, which are
\* there or not at the time of a call
DefaultFiles == LegacyFiles(LogDefault)
WorkingDirectory == {None, Some(DefaultFiles)}

StoredNames == {"a", "b"}
MergedNames == {"m"}
SourceNames == {DefaultName} \cup StoredNames

\* the lists of at most MaxSources source names
SourceLists == TextsOf({ <<name>> : name \in SourceNames }, MaxSources)

DmInit ==
    /\ pc = "serving"
    /\ DataManagerInit
    /\ sqlA = <<>> /\ sqlB = <<>> /\ tplA = None /\ tplB = None /\ tplAA = None
    /\ type_of_sql = None /\ type_of_template = None
    /\ log_content = <<>> /\ raw_data = None /\ summary_data = None
    /\ template_to_raw_dict = None /\ stats = None

\* a call of DataManager.load_analysis_data
Load ==
    \E analysis_name \in {DefaultName} \cup AnalysisNames,
       files \in WorkingDirectory :
        \E result \in { load_analysis_data(data_dir, current_analysis, files,
                                            analysis_name) } :
            /\ pc = "serving"
            /\ current_analysis' = result.current_analysis
            /\ UNCHANGED <<pc, data_dir, response, normVars, pipeVars>>

\* a variant of the call that makes a saved analysis the current one
Save_LoadsSaved ==
    \E request \in Uploads, failure \in WriteFailures :
        \E result \in { save_analysis(data_dir, request[1], request[2], failure) } :
            /\ pc = "serving"
            /\ data_dir' = result.data_dir
            /\ current_analysis' =
                  IF IsSome(result.error) THEN current_analysis
                  ELSE load_analysis_data(result.data_dir, current_analysis, None,
                                          request[1]).current_analysis
            /\ UNCHANGED <<pc, response, normVars, pipeVars>>

\* a call of DataManager.save_analysis
Save ==
    \E request \in Uploads, failure \in WriteFailures :
        \E result \in { save_analysis(data_dir, request[1], request[2], failure) } :
            /\ pc = "serving"
            /\ data_dir' = result.data_dir
            /\ UNCHANGED <<pc, current_analysis, response, normVars, pipeVars>>

\* a call of DataManager.delete_analysis
Delete ==
    \E analysis_name \in {DefaultName} \cup AnalysisNames,
       files \in WorkingDirectory :
        \E result \in { delete_analysis(data_dir, current_analysis, files,
                                         analysis_name) } :
            /\ pc = "serving"
            /\ data_dir' = result.data_dir
            /\ current_analysis' = result.current_analysis
            /\ UNCHANGED <<pc, response, normVars, pipeVars>>

\* the files merge_analysis writes, in the order it writes them, and the write
\* at which an OSError is raised ("none" if every write succeeds)
MergeSteps == << "raw_data.json", "summary.json", "metadata.json" >>
MergeFailures == {"none"} \cup { MergeSteps[i] : i \in DOMAIN MergeSteps }

\* the merged directory when a write fails: merge_analysis has no try block,
\* so the directory stays with the files written before the failing one
PartlyWritten(merged_path, failure) ==
    [ merged_path EXCEPT
        !.raw_data = IF failure = "raw_data.json" THEN None ELSE @,
        !.summary = IF failure \in {"raw_data.json", "summary.json"} THEN None ELSE @,
        !.metadata = None ]

\* the outcome of merge_analysis with a failing write, given its outcome when
\* every write succeeds: the checks before mkdir raise as they do
MergeWrites(result, merged_name, failure) ==
    IF failure = "none" \/ IsSome(result.error) THEN result
    ELSE [ error |-> Some("OSError"),
           data_dir |-> [ result.data_dir EXCEPT
                            ![merged_name] = Some(PartlyWritten(Get(@), failure)) ] ]

\* a call of DataManager.merge_analysis; a merge of more than MaxEvents events
\* is left out
Merge ==
    \E merged_name \in MergedNames, source_files \in SourceLists,
       failure \in MergeFailures :
        \E result \in { MergeWrites(merge_analysis(data_dir, current_analysis,
                                                    merged_name, source_files),
                                     merged_name, failure) } :
            /\ pc = "serving"
            /\ Len(CollectSources(data_dir, current_analysis, source_files,
                                  Len(source_files)).all_raw_data) <= MaxEvents
            /\ data_dir' = result.data_dir
            /\ UNCHANGED <<pc, current_analysis, response, normVars, pipeVars>>

DmNext == Load \/ Save \/ Delete \/ Merge

SpecDM == DmInit /\ [][DmNext]_vars

----------------------------------------------------------------------------
(* The request handlers of api/analysis.py, api/upload.py and               *)
(* api/queries.py.  Each is a coroutine on the one event loop of the        *)
(* server and awaits nothing once it has its parameters, so a request is    *)
(* one step.  The response is its status and its JSON body without the      *)
(* message texts.                                                           *)

\* the response to a request: 200 with the handler's result, or the status of
\* the HTTPException the handler turns an exception into; analysis_name is the
\* analysis the request names, "" if it names none
Answer(request, analysis_name, status, body) ==
    Some([ request |-> request, analysis_name |-> analysis_name,
           status |-> status, body |-> body ])
Failure(request, analysis_name, status, error) ==
    Answer(request, analysis_name, status, [ detail |-> Get(error) ])

\* dict.get(key, []) of a dict of lists
DictGet(dict, key) ==
    IF \E k \in DOMAIN dict : dict[k].key = key
    THEN dict[CHOOSE k \in DOMAIN dict : dict[k].key = key].details
    ELSE <<>>

\* get_raw_sqls: the detail records of the template at an index of the summary
InvalidIndex == [ error |-> "invalid template index" ]
get_raw_sqls(current, template_index) ==
    IF 0 <= template_index /\ template_index < Len(current.summary_data)
    THEN [ raw_sqls |-> DictGet(current.template_to_raw_dict,
                                current.summary_data[template_index + 1].template) ]
    ELSE InvalidIndex

\* needle in hay, for a needle that is not empty
Contains(hay, needle) == IndexOf(hay, needle, 1) # 0

\* s.split(sep) from index i on, sep being one character
RECURSIVE SplitAt(_, _, _)
SplitAt(s, sep, i) ==
    IF IndexOfChar(s, sep, i) = 0 THEN << Slice(s, i, Len(s) + 1) >>
    ELSE << Slice(s, i, IndexOfChar(s, sep, i)) >>
         \o SplitAt(s, sep, IndexOfChar(s, sep, i) + 1)

\* table_filters: the trimmed, lower-cased, non-empty parts of table_filter
TableFilters(table_filter) ==
    { Lower(Strip(part)) : part \in ToSet(SplitAt(table_filter, ",", 1)) } \ { <<>> }

\* the table filter of get_raw_queries: without filter every item passes,
\* with one an item passes if one of its tables contains one of the parts
PassesTables(item, table_filter) ==
    \/ table_filter = <<>>
    \/ TableFilters(table_filter) = {}
    \/ \E table_name \in ToSet(item.tables_used),
          filter_table \in TableFilters(table_filter) :
            Contains(Lower(table_name), filter_table)

\* whether the loop of get_raw_queries appends an item to filtered_data
Passes(item, query) ==
    /\ HasSql(item)
    /\ OrZero(item.query_time) >= query.min_time
    /\ query.sql_type # <<>> => get_sql_type(Get(item.sql)) = query.sql_type
    /\ query.user_filter # <<>> =>
          Contains(Lower(OrEmpty(item.user)), Lower(query.user_filter))
    /\ PassesTables(item, query.table_filter)
    /\ query.search # <<>> => Contains(Lower(Get(item.sql)), Lower(query.search))

\* list.sort(key=lambda x: x.query_time or 0, reverse=True): by descending
\* query time, items of equal time in their order
RECURSIVE SortByTime(_)
SortByTime(items) ==
    IF Len(items) = 0 THEN <<>>
    ELSE LET top == Min({ k \in DOMAIN items :
                            \A j \in DOMAIN items :
                                OrZero(items[j].query_time) <= OrZero(items[k].query_time) })
         IN  <<items[top]>> \o SortByTime(Pick(items, DOMAIN items \ {top}, 1))

\* list[start:end]
ListSlice(list, start, end) ==
    IF start >= Len(list) THEN <<>>
    ELSE SubSeq(list, start + 1, IF end < Len(list) THEN end ELSE Len(list))

\* the dict get_raw_queries makes of an item
FormattedQuery(item) ==
    [ sql |-> Get(item.sql),
      query_time |-> OrZero(item.query_time),
      lock_time |-> OrZero(item.lock_time),
      rows_examined |-> OrZero(item.rows_examined),
      rows_sent |-> OrZero(item.rows_sent),
      user |-> OrEmpty(item.user),
      host |-> OrEmpty(item.host),
      time |-> OrEmpty(item.time),
      schema |-> OrEmpty(item.schema),
      thread_id |-> OrZero(item.thread_id),
      sql_type |-> get_sql_type(Get(item.sql)),
      tables_used |-> item.tables_used ]

\* the page of the filtered and sorted items
PageOf(filtered_data, query) ==
    [ data |-> [ i \in DOMAIN ListSlice(filtered_data, (query.page - 1) * query.size,
                                        (query.page - 1) * query.size + query.size) |->
                   FormattedQuery(ListSlice(filtered_data, (query.page - 1) * query.size,
                                            (query.page - 1) * query.size + query.size)[i]) ],
      total |-> Len(filtered_data),
      page |-> query.page,
      size |-> query.size,
      total_pages |-> (Len(filtered_data) + query.size - 1) \div query.size ]

\* get_raw_queries
get_raw_queries(current, query) ==
    PageOf(SortByTime(Pick(current.raw_data,
                           { i \in DOMAIN current.raw_data :
                               Passes(current.raw_data[i], query) }, 1)),
           query)

\* get_performance_stats
get_performance_stats(current) == calculate_performance_stats(current.raw_data)

\* get_tables_list: the tables of all items, sorted
get_tables_list(current) ==
    [ tables |-> Sorted(ToSet(TableUses(current.raw_data, Len(current.raw_data)))) ]

\* the parameters the requests are made with
TemplateIndexes == {-1, 0, 1}
RawQuery(page, size, search, min_time, sql_type, user_filter, table_filter) ==
    [ page |-> page, size |-> size, search |-> search, min_time |-> min_time,
      sql_type |-> sql_type, user_filter |-> user_filter,
      table_filter |-> table_filter ]
RawQueries ==
    { RawQuery(1, 50, <<>>, 0, <<>>, <<>>, <<>>),
      RawQuery(2, 1, <<>>, 0, <<>>, <<>>, <<>>),
      RawQuery(1, 50, <<>>, 1500000, <<"S","E","L","E","C","T">>, <<>>, <<>>),
      RawQuery(1, 50, <<"F","R","O","M">>, 0, <<>>, <<"A","P">>,
               <<" ","x",","," ","T"," ",",">>) }

\* POST /api/switch_analysis/{analysis_name}
SwitchAnalysis ==
    \E analysis_name \in {DefaultName} \cup AnalysisNames,
       files \in WorkingDirectory :
        \E result \in { load_analysis_data(data_dir, current_analysis, files,
                                            analysis_name) } :
            /\ pc = "serving"
            /\ current_analysis' = result.current_analysis
            /\ response' =
                  IF result.error = None
                  THEN Answer("switch_analysis", analysis_name, 200,
                              [ success |-> TRUE,
                                current_analysis |-> result.current_analysis.name ])
                  ELSE Failure("switch_analysis", analysis_name, 500, result.error)
            /\ UNCHANGED <<pc, data_dir, normVars, pipeVars>>

\* POST /api/upload_log
UploadLog ==
    \E request \in Uploads, failure \in WriteFailures :
        \E result \in { save_analysis(data_dir, request[1], request[2], failure) } :
            /\ pc = "serving"
            /\ data_dir' = result.data_dir
            /\ response' =
                  IF result.error = None
                  THEN Answer("upload_log", request[1], 200,
                              [ success |-> TRUE, analysis_name |-> request[1],
                                total_queries |-> Len(request[2].parsed.entries),
                                total_templates |->
                                    Len(request[2].summary_data) ])
                  ELSE Failure("upload_log", request[1], 500, result.error)
            /\ UNCHANGED <<pc, current_analysis, normVars, pipeVars>>

\* DELETE /api/analysis_files/{analysis_name}
DeleteAnalysis ==
    \E analysis_name \in {DefaultName} \cup AnalysisNames,
       files \in WorkingDirectory :
        \E result \in { delete_analysis(data_dir, current_analysis, files,
                                         analysis_name) } :
            /\ pc = "serving"
            /\ data_dir' = result.data_dir
            /\ current_analysis' = result.current_analysis
            /\ response' =
                  IF result.error = None
                  THEN Answer("delete_analysis", analysis_name, 200,
                              [ success |-> TRUE,
                                current_analysis |-> result.current_analysis.name ])
                  ELSE Failure("delete_analysis", analysis_name,
                               IF result.error = Some("ValueError") THEN 400 ELSE 404,
                               result.error)
            /\ UNCHANGED <<pc, normVars, pipeVars>>

\* GET /api/raw_sqls/{template_index}
GetRawSqls ==
    \E template_index \in TemplateIndexes :
        /\ pc = "serving"
        /\ response' = Answer("raw_sqls", "", 200,
                              get_raw_sqls(current_analysis, template_index))
        /\ UNCHANGED <<pc, data_dir, current_analysis, normVars, pipeVars>>

\* GET /api/raw_queries
GetRawQueries ==
    \E query \in RawQueries :
        /\ pc = "serving"
        /\ response' = Answer("raw_queries", "", 200,
                              get_raw_queries(current_analysis, query))
        /\ UNCHANGED <<pc, data_dir, current_analysis, normVars, pipeVars>>

\* GET /api/performance_stats
GetPerformanceStats ==
    /\ pc = "serving"
    /\ response' = Answer("performance_stats", "", 200,
                          get_performance_stats(current_analysis))
    /\ UNCHANGED <<pc, data_dir, current_analysis, normVars, pipeVars>>

\* GET /api/tables_list
GetTablesList ==
    /\ pc = "serving"
    /\ response' = Answer("tables_list", "", 200,
                          get_tables_list(current_analysis))
    /\ UNCHANGED <<pc, data_dir, current_analysis, normVars, pipeVars>>

ServeNext ==
    \/ SwitchAnalysis \/ UploadLog \/ DeleteAnalysis
    \/ GetRawSqls \/ GetRawQueries \/ GetPerformanceStats \/ GetTablesList

SpecServe == DmInit /\ [][ServeNext]_vars

----------------------------------------------------------------------------
(* POST /api/upload_multiple_logs: several log files are uploaded in one   *)
(* request, their texts are joined and stored as one analysis.             *)

MaxFiles == 2

\* the server's banner before the first record of a log
Banner == << "T","c","p"," ","p","o","r","t",":"," ","0","\n" >>

\* the files that are uploaded: a whole log, a log without final newline and
\* a log that starts with the banner
UploadFiles ==
    { [ filename |-> "fast.log", content |-> LogFast ],
      [ filename |-> "slow.log", content |-> Chop(LogSlow) ],
      [ filename |-> "banner.log", content |-> Banner \o LogDefault ] }

\* the lists of at most MaxFiles files
FileLists == TextsOf({ << file >> : file \in UploadFiles }, MaxFiles)

\* merged_content = "\n".join(all_content)
MergedContent(files) == Join([ i \in DOMAIN files |-> files[i].content ], << "\n" >>)

\* merged_filename
MergedFilename(files) ==
    IF Len(files) = 1 THEN files[1].filename
    ELSE "merged_" \o ToString(Len(files)) \o "_files"

\* file_info
FileInfo(files) ==
    [ i \in DOMAIN files |->
        [ filename |-> files[i].filename, size |-> Len(files[i].content) ] ]

\* the requests that are made, each with, computed once, what save_analysis
\* is called with
MultipleUploads ==
    { [ analysis_name |-> "a", files |-> files,
        upload |-> Upload(MergedFilename(files), MergedContent(files)) ] :
        files \in FileLists }

\* POST /api/upload_multiple_logs
UploadMultipleLogs ==
    \E request \in MultipleUploads, failure \in WriteFailures :
        \E result \in { save_analysis(data_dir, request.analysis_name,
                                      request.upload, failure) } :
            /\ pc = "serving"
            /\ IF Len(request.files) = 0 \/ Len(request.files) > 20
               THEN /\ response' = Failure("upload_multiple_logs", request.analysis_name,
                                           400, Some("HTTPException"))
                    /\ UNCHANGED data_dir
               ELSE /\ data_dir' = result.data_dir
                    /\ response' =
                          IF result.error = None
                          THEN Answer("upload_multiple_logs", request.analysis_name, 200,
                                      [ success |-> TRUE,
                                        analysis_name |-> request.analysis_name,
                                        total_queries |-> Len(request.upload.parsed.entries),
                                        total_templates |->
                                            Len(request.upload.summary_data),
                                        upload_type |-> "multiple",
                                        files_count |-> Len(request.files),
                                        files_info |-> FileInfo(request.files),
                                        total_size |->
                                            SumSeq([ i \in DOMAIN request.files |->
                                                       Len(request.files[i].content) ]) ])
                          ELSE Failure("upload_multiple_logs", request.analysis_name,
                                       500, result.error)
            /\ UNCHANGED <<pc, current_analysis, normVars, pipeVars>>

UploadNext == UploadMultipleLogs

SpecUpload == DmInit /\ [][UploadNext]_vars

----------------------------------------------------------------------------
(* The claims.                                                             *)

\* C2: normalize_sql is idempotent: normalizing a template again yields the
\* same template, for every SQL text.
C2_Idempotent == pc = "done" => tplAA = tplA

\* a text in which a number was masked and the placeholder list collapsed,
\* normalized twice
C2_Witness ==
    /\ pc = "done"
    /\ sqlA = <<"(", " ", "1", ")">>
    /\ tplA = Some(<<"(", "?", ")">>)
    /\ tplAA = tplA

\* C3: two SQL statements that differ only in their literal values and in
\* whitespace normalize to the same template.
C3_LiteralInvariance == pc # "start" => tplA = tplB

----------------------------------------------------------------------------
(* The claims about the parser and the summary, stated of the pipeline.    *)

\* the parsed events and the summary entries of the current state
Events == Get(raw_data)
Summaries == Get(summary_data)
Parsed == pc \in {"parsed", "summarized"}

\* the indices at which a line of the text starts with the record marker
MarkerLines(text) ==
    { p \in 1..Len(text) :
        /\ p = 1 \/ text[p - 1] = "\n"
        /\ p + Len(TimeLit) - 1 <= Len(text)
        /\ SubSeq(text, p, p + Len(TimeLit) - 1) = TimeLit }

\* the text before the first marker line
Preamble(text) ==
    IF MarkerLines(text) = {} THEN text
    ELSE SubSeq(text, 1, Min(MarkerLines(text)) - 1)

\* the number of marker lines that start before index p
Rank(text, p) == Cardinality({ q \in MarkerLines(text) : q < p })

\* the rest of the line that starts with the marker at p
MarkerRest(text, p) ==
    LET from == p + Len(TimeLit)
        ends == { e \in from..Len(text) : text[e] = "\n" }
    IN  SubSeq(text, from, IF ends = {} THEN Len(text) ELSE Min(ends) - 1)

\* C1: the counts of the summary entries of create_summary_data(E) add up to
\* the number of events of E whose SQL text is present, where present is the
\* code's test "if item.sql": the text is neither None nor empty.
C1_GroupingConsistency ==
    pc = "summarized" =>
        SumSeq([ k \in DOMAIN Summaries |-> Summaries[k].count ])
            = Cardinality({ i \in DOMAIN Events : HasSql(Events[i]) })

\* two events of one template summarized next to an event without SQL text
C1_Witness ==
    /\ pc = "summarized"
    /\ Len(Events) = 3
    /\ \E i \in DOMAIN Events : ~HasSql(Events[i])
    /\ Len(Summaries) = 1 /\ Summaries[1].count = 2

\* the events of a sequence whose SQL text normalizes to a template
Members(events, template) ==
    { i \in DOMAIN events :
        IsSome(events[i].sql) /\ normalize_sql(Get(events[i].sql)) = template }

\* the present query times of a set of events added up, in microseconds
TotalTime(events, members) ==
    SumSeq([ i \in DOMAIN events |->
               IF i \in members /\ IsSome(events[i].query_time)
               THEN Get(events[i].query_time) ELSE 0 ])

\* avg is total / count rounded to 4 decimals: at most half of 0.0001 s away
\* from the quotient (avg in units of 0.0001 s, total in microseconds)
IsRoundedMean(avg, total, count) ==
    /\ count > 0
    /\ 2 * (avg * 100 * count - total) <= 100 * count
    /\ 2 * (total - avg * 100 * count) <= 100 * count

\* C4: the count of every summary entry is the number of events whose SQL
\* normalizes to the entry's template, and its avg_query_time is the sum of the
\* present query times of those events divided by the count, rounded to 4
\* decimals (at most half of 0.0001 s away from the quotient): an event
\* without query time adds nothing to the sum and counts in the divisor.
C4_CountAndAverage ==
    pc = "summarized" =>
        \A k \in DOMAIN Summaries :
            LET entry == Summaries[k]
                members == Members(Events, entry.template)
            IN  /\ entry.count = Cardinality(members)
                /\ IsRoundedMean(entry.avg_query_time, TotalTime(Events, members),
                                 entry.count)

\* a timed and an untimed event of one template: 0.50007 s over 2 is 0.2500 s
C4_Witness ==
    /\ pc = "summarized"
    /\ Len(Summaries) = 1
    /\ Summaries[1].count = 2
    /\ Summaries[1].avg_query_time = 2500
    /\ \E i, j \in DOMAIN Events :
          /\ Events[i].query_time = Some(500070)
          /\ Events[j].query_time = None /\ HasSql(Events[j])

\* C6: text before the first marker line never produces an Event, so that the
\* result holds at most one Event for each marker line, and none for a text
\* without marker line.
C6_PreambleDiscarded ==
    Parsed => Len(Events) <= Cardinality(MarkerLines(log_content))

\* C7: every marker line begins exactly one Event, the Events are in the order
\* of their marker lines, and the final block is returned also when the text
\* does not end with a newline.  The Event of a marker line is told by its
\* time field, which is the trimmed rest of that line; a non-blank preamble
\* gives one more Event, which comes first.
C7_OneEventPerMarkerLine ==
    Parsed =>
        LET text == log_content
            extra == IF Strip(Preamble(text)) = <<>> THEN 0 ELSE 1
        IN  /\ Len(Events) = Cardinality(MarkerLines(text)) + extra
            /\ \A p \in MarkerLines(text) :
                  MarkerRest(text, p) # <<>> =>
                      Events[Rank(text, p) + 1 + extra].time
                          = Some(Strip(MarkerRest(text, p)))

\* two blocks, the text ending without newline: two Events in the order of
\* their marker lines
C7_Witness ==
    /\ Parsed
    /\ log_content # <<>> /\ log_content[Len(log_content)] # "\n"
    /\ Cardinality(MarkerLines(log_content)) = 2
    /\ Len(Events) = 2
    /\ Events[1].time = Some(<<"t", "7">>)
    /\ Events[2].time = Some(<<"t", "1">>)
    /\ HasSql(Events[2])

\* the non-blank pieces into which the marker lines cut the text: the blocks,
\* one for each Event
BlockBounds(text) ==
    LET cuts == (MarkerLines(text) \ {1}) \cup {1, Len(text) + 1}
    IN  { b \in cuts \X cuts :
            /\ b[1] < b[2]
            /\ \A c \in cuts : ~(b[1] < c /\ c < b[2])
            /\ Strip(SubSeq(text, b[1], b[2] - 1)) # <<>> }

BlockOf(text, k) ==
    LET b == CHOOSE b \in BlockBounds(text) :
                Cardinality({ c \in BlockBounds(text) : c[1] < b[1] }) = k - 1
    IN  SubSeq(text, b[1], b[2] - 1)

\* the indices after the "SET timestamp=<int>;" markers of a block
MarkerEnds(block) ==
    { e \in 1..(Len(block) + 1) :
        \E p \in 1..Len(block) :
            /\ IsSome(MatchTimestampAt(block, p))
            /\ StartsAt(block, SetTimestampLit, p)
            /\ e = p + Len(SetTimestampLit) + Len(Get(MatchTimestampAt(block, p))) + 1 }

\* the SQL text of an Event, empty if there is none
SqlText(event) == IF IsSome(event.sql) THEN Get(event.sql) ELSE <<>>

\* C8: the SQL text of an Event is the trimmed text that follows the last
\* "SET timestamp=<int>;" marker of its block up to the end of the block; the
\* Event of a block without marker has no SQL text and no tables.
C8_SqlFollowsLastMarker ==
    Parsed /\ Len(Events) = Cardinality(BlockBounds(log_content)) =>
        \A k \in DOMAIN Events :
            LET block == BlockOf(log_content, k)
                ends == MarkerEnds(block)
            IN  IF ends = {}
                THEN Events[k].sql = None /\ Events[k].tables_used = <<>>
                ELSE SqlText(Events[k])
                        = Strip(SubSeq(block, Max(ends), Len(block)))

\* C9: the table names of an Event are lower-cased.
C9_TablesLowerCased ==
    Parsed =>
        \A k \in DOMAIN Events :
            \A n \in DOMAIN Events[k].tables_used :
                Events[k].tables_used[n] = Lower(Events[k].tables_used[n])

\* a list of names in ascending order without repetition
StrictlySorted(list) ==
    \A n \in 1..(Len(list) - 1) : StrLess(list[n], list[n + 1])

\* C10: the tables_used of every Event is lexicographically sorted and without
\* duplicates, and so is the tables_used of every summary entry.
C10_TablesSortedUnique ==
    /\ Parsed => \A k \in DOMAIN Events : StrictlySorted(Events[k].tables_used)
    /\ pc = "summarized" =>
          \A k \in DOMAIN Summaries : StrictlySorted(Summaries[k].tables_used)

\* a statement that names zeta, alpha and zeta again, twice in the log: the
\* Event and the summary entry hold alpha, zeta
C10_Witness ==
    /\ pc = "summarized"
    /\ Len(Events) = 2
    /\ \A k \in DOMAIN Events :
          /\ IsSome(Events[k].sql)
          /\ Len(FindallTables(Get(Events[k].sql), Lower(Get(Events[k].sql)), 1)) = 3
          /\ Events[k].tables_used
                = << <<"a","l","p","h","a">>, <<"z","e","t","a">> >>
    /\ Len(Summaries) = 1
    /\ Summaries[1].tables_used = << <<"a","l","p","h","a">>, <<"z","e","t","a">> >>

----------------------------------------------------------------------------
(* The claims about the data manager.                                      *)

\* the events that merge_analysis takes from a source, as the state before the
\* call holds them: the stored raw data of a named analysis, the current raw
\* data for the default analysis while it is the current one, else nothing
SourceEvents(name) ==
    IF name = DefaultName
    THEN IF current_analysis.name = DefaultName THEN current_analysis.raw_data ELSE <<>>
    ELSE IF name \in DOMAIN data_dir /\ IsSome(data_dir[name])
            /\ IsSome(Get(data_dir[name]).raw_data)
    THEN Get(Get(data_dir[name]).raw_data)
    ELSE <<>>

RECURSIVE Concatenation(_)
Concatenation(names) ==
    IF names = <<>> THEN <<>>
    ELSE SourceEvents(Head(names)) \o Concatenation(Tail(names))

\* the count that a summary gives a template, 0 if it has no entry for it
CountOf(summary, template) ==
    SumSeq([ k \in DOMAIN summary |->
               IF summary[k].template = template THEN summary[k].count ELSE 0 ])

\* a directory written by merge_analysis
IsMerged(dir) == IsSome(dir.metadata) /\ IsSome(Get(dir.metadata).merge_info)

\* C5: a step that adds a merged analysis stores the summary that
\* create_summary_data gives for the concatenation of the sources' event
\* sequences: one entry for each template, its count the sum of the counts
\* that the sources' own summaries give the template, its average the mean
\* over all merged events of the template (rounded to 4 decimals); and the
\* stored total_queries is the length of the concatenation.
C5_MergeReaggregates ==
    [][ \A name \in AnalysisNames :
          ( /\ data_dir[name] = None
            /\ IsSome(data_dir'[name])
            /\ IsMerged(Get(data_dir'[name])) ) =>
          LET merged == Get(data_dir'[name])
              sources == Get(Get(merged.metadata).merge_info).merged_from
              events == Concatenation(sources)
              summary == Get(merged.summary)
          IN  /\ Get(merged.raw_data) = events
              /\ summary = create_summary_data(events)
              /\ Get(merged.metadata).total_queries = Len(events)
              /\ \A s \in DOMAIN sources :
                    \A e \in DOMAIN create_summary_data(SourceEvents(sources[s])) :
                        \E k \in DOMAIN summary :
                            summary[k].template
                                = create_summary_data(SourceEvents(sources[s]))[e].template
              /\ \A k \in DOMAIN summary :
                    /\ \A j \in DOMAIN summary :
                          summary[j].template = summary[k].template => j = k
                    /\ summary[k].count
                          = SumSeq([ s \in DOMAIN sources |->
                                       CountOf(create_summary_data(SourceEvents(sources[s])),
                                               summary[k].template) ])
                    /\ IsRoundedMean(summary[k].avg_query_time,
                                     TotalTime(events, Members(events, summary[k].template)),
                                     summary[k].count)
      ]_vars

\* analysis a (two events, average 1.5 s) and analysis b (one event, 6.0 s)
\* merged into m: one entry of count 3 and average 3.0 s, which is not the
\* average 3.75 s of the two averages
C5_Witness ==
    /\ IsSome(data_dir["a"]) /\ IsSome(data_dir["b"]) /\ IsSome(data_dir["m"])
    /\ IsMerged(Get(data_dir["m"]))
    /\ Get(Get(data_dir["a"]).summary)[1].count = 2
    /\ Get(Get(data_dir["a"]).summary)[1].avg_query_time = 15000
    /\ Get(Get(data_dir["b"]).summary)[1].count = 1
    /\ Get(Get(data_dir["b"]).summary)[1].avg_query_time = 60000
    /\ Get(Get(Get(data_dir["m"]).metadata).merge_info).merged_from = <<"a", "b">>
    /\ Len(Get(Get(data_dir["m"]).summary)) = 1
    /\ Get(Get(data_dir["m"]).summary)[1].count = 3
    /\ Get(Get(data_dir["m"]).summary)[1].avg_query_time = 30000
    /\ Get(Get(data_dir["m"]).metadata).total_queries = 3

----------------------------------------------------------------------------
(* The claims about failures, field groups and the statistics.             *)

\* the number of blocks of a text
BlockCount(text) == Cardinality(BlockBounds(text))

\* C11: a query time that matches [\d.]+ but is no number fails its own block
\* only: once the text has been parsed, the Event of every block that parses
\* without error is among the returned Events.
C11_FailureIsPerBlock ==
    pc # "start" =>
        \A k \in 1..BlockCount(log_content) :
            ~_parse_single_entry(BlockOf(log_content, k)).raised =>
                /\ IsSome(raw_data)
                /\ \E i \in DOMAIN Events :
                      Events[i] = _parse_single_entry(BlockOf(log_content, k)).entry

\* whether the pattern of a field group matches somewhere in a block
TimeMatches(block) ==
    \E p \in 1..Len(block) : StartsAt(block, TimeLit, p) /\ IsSome(MatchTimeAt(block, p))
UserHostMatches(block) ==
    \E p \in 1..Len(block) :
        StartsAt(block, UserHostLit, p) /\ IsSome(MatchUserHostAt(block, p))
ThreadMatches(block) ==
    \E p \in 1..Len(block) :
        StartsAt(block, ThreadIdLit, p) /\ IsSome(MatchThreadAt(block, p))
QueryTimeMatches(block) ==
    \E p \in 1..Len(block) :
        StartsAt(block, QueryTimeLit, p) /\ IsSome(MatchQueryTimeAt(block, p))
RowsAffectedMatches(block) ==
    \E p \in 1..Len(block) :
        StartsAt(block, RowsAffectedLit, p) /\ IsSome(MatchRowsAffectedAt(block, p))
TimestampMatches(block) ==
    \E p \in 1..Len(block) :
        StartsAt(block, SetTimestampLit, p) /\ IsSome(MatchTimestampAt(block, p))
SqlMatches(block) ==
    \E p \in 1..Len(block) :
        StartsAt(block, SetTimestampLit, p) /\ IsSome(MatchSqlAt(block, p))

\* the fields of an Event are populated for exactly the groups whose pattern
\* matches its block
GroupsFollowBlock(event, block) ==
    /\ IsSome(event.time) <=> TimeMatches(block)
    /\ IsSome(event.user) <=> UserHostMatches(block)
    /\ IsSome(event.host) <=> UserHostMatches(block)
    /\ IsSome(event.thread_id) <=> ThreadMatches(block)
    /\ IsSome(event.schema) <=> ThreadMatches(block)
    /\ IsSome(event.qc_hit) <=> ThreadMatches(block)
    /\ IsSome(event.query_time) <=> QueryTimeMatches(block)
    /\ IsSome(event.lock_time) <=> QueryTimeMatches(block)
    /\ IsSome(event.rows_sent) <=> QueryTimeMatches(block)
    /\ IsSome(event.rows_examined) <=> QueryTimeMatches(block)
    /\ IsSome(event.rows_affected) <=> RowsAffectedMatches(block)
    /\ IsSome(event.bytes_sent) <=> RowsAffectedMatches(block)
    /\ IsSome(event.timestamp) <=> TimestampMatches(block)
    /\ IsSome(event.sql) <=> SqlMatches(block)

\* C12: the field groups are extracted independently: in every returned Event
\* each group (time; user and host; thread id, schema and qc-hit; query time,
\* lock time, rows sent and rows examined; rows affected and bytes sent;
\* timestamp; SQL) is populated exactly when its own pattern matches the
\* Event's block, whatever the other groups do.
C12_GroupsIndependent ==
    Parsed =>
        /\ Len(Events) = BlockCount(log_content)
        /\ \A k \in DOMAIN Events : GroupsFollowBlock(Events[k], BlockOf(log_content, k))

\* a block with every annotation line but the thread line, and a block with
\* the thread line only: the first Event has no thread id and no schema and
\* every other field, the second has the thread fields and neither user,
\* query time nor SQL
C12_Witness ==
    /\ Parsed
    /\ Len(Events) = 2
    /\ Events[1].thread_id = None /\ Events[1].schema = None
    /\ Events[1].qc_hit = None
    /\ Events[1].time = Some(<<"t", "9">>)
    /\ Events[1].user = Some(<<"a", "p", "p">>)
    /\ Events[1].host = Some(<<"d", "b", "1">>)
    /\ Events[1].query_time = Some(1000000)
    /\ Events[1].rows_examined = Some(3)
    /\ Events[1].rows_affected = Some(3) /\ Events[1].bytes_sent = Some(11)
    /\ Events[1].timestamp = Some(10)
    /\ HasSql(Events[1])
    /\ Events[2].thread_id = Some(8)
    /\ Events[2].schema = Some(<<"s", "h", "o", "p">>)
    /\ Events[2].user = None /\ Events[2].query_time = None
    /\ Events[2].sql = None

\* the parts of a full statistics object
StatsParts ==
    { "basic_stats", "type_stats", "time_ranges", "user_stats", "table_stats",
      "type_performance" }

\* the Events that have a query time
Timed(events) == { i \in DOMAIN events : IsSome(events[i].query_time) }

\* C13: calculate_performance_stats returns the no-data result exactly when no
\* Event of its input has a query time, the empty input included, and a full
\* statistics object for every other input; it raises in neither case.
C13_NoDataIffUntimed ==
    IsSome(stats) =>
        IF Timed(Events) = {}
        THEN Get(stats) = NoData
        ELSE DOMAIN Get(stats) = StatsParts

\* two Events with SQL text and no query time: the no-data result
C13_Witness ==
    /\ IsSome(stats)
    /\ Len(Events) = 2
    /\ \A i \in DOMAIN Events : HasSql(Events[i]) /\ Events[i].query_time = None
    /\ Get(stats) = NoData

\* C14: for the empty text the whole pipeline gives empty results and no
\* error: no Event, no summary entry, an empty template index, and the
\* no-data result for the statistics.
C14_EmptyTextEmptyResults ==
    log_content = <<>> =>
        /\ pc # "raised"
        /\ pc # "start" => raw_data = Some(<<>>)
        /\ pc = "summarized" => summary_data = Some(<<>>)
        /\ IsSome(template_to_raw_dict) => Get(template_to_raw_dict) = <<>>
        /\ IsSome(stats) => Get(stats) = NoData

\* the empty text has gone through every step of the pipeline
C14_Witness ==
    /\ log_content = <<>>
    /\ raw_data = Some(<<>>)
    /\ summary_data = Some(<<>>)
    /\ template_to_raw_dict = Some(<<>>)
    /\ stats = Some(NoData)

\* whether the statistics are a full statistics object
FullStats == IsSome(stats) /\ DOMAIN Get(stats) = StatsParts

\* the sum of the five counters of time_ranges
RangeTotal(time_ranges) ==
    time_ranges["0-1s"] + time_ranges["1-5s"] + time_ranges["5-10s"]
        + time_ranges["10-30s"] + time_ranges["30s+"]

\* C15: in the statistics of an Event sequence, total_queries is the number
\* of Events and the five counters of time_ranges add up to the number of
\* Events with a query time, those with query time 0 included.
C15_StatsTotals ==
    FullStats =>
        /\ Get(stats).basic_stats.total_queries = Len(Events)
        /\ RangeTotal(Get(stats).time_ranges) = Cardinality(Timed(Events))

\* an Event without query time, one with query time 0 and one with 2 s:
\* three queries in total, two of them in the time ranges
C15_Witness ==
    /\ FullStats
    /\ Len(Events) = 3
    /\ Events[1].query_time = None
    /\ Events[2].query_time = Some(0)
    /\ Events[3].query_time = Some(2000000)
    /\ Get(stats).basic_stats.total_queries = 3
    /\ RangeTotal(Get(stats).time_ranges) = 2

\* the number of Events whose query time t (in microseconds) is present with
\* low <= t, and t < high unless high is 0 (no upper bound)
CountWithin(events, low, high) ==
    Cardinality({ i \in Timed(events) :
                    /\ low <= Get(events[i].query_time)
                    /\ high # 0 => Get(events[i].query_time) < high })

\* C16: a present query time t is counted in "0-1s" iff 0 <= t < 1, in "1-5s"
\* iff 1 <= t < 5, in "5-10s" iff 5 <= t < 10, in "10-30s" iff 10 <= t < 30
\* and in "30s+" iff t >= 30.
C16_TimeRangeBounds ==
    FullStats =>
        /\ Get(stats).time_ranges["0-1s"] = CountWithin(Events, 0, 1000000)
        /\ Get(stats).time_ranges["1-5s"] = CountWithin(Events, 1000000, 5000000)
        /\ Get(stats).time_ranges["5-10s"] = CountWithin(Events, 5000000, 10000000)
        /\ Get(stats).time_ranges["10-30s"] = CountWithin(Events, 10000000, 30000000)
        /\ Get(stats).time_ranges["30s+"] = CountWithin(Events, 30000000, 0)

\* the query times 0.5, 2.0 and 12.0 give the counts 1, 1, 0, 1, 0
C16_Witness ==
    /\ FullStats
    /\ Len(Events) = 3
    /\ Events[1].query_time = Some(500000)
    /\ Events[2].query_time = Some(2000000)
    /\ Events[3].query_time = Some(12000000)
    /\ Get(stats).time_ranges["0-1s"] = 1
    /\ Get(stats).time_ranges["1-5s"] = 1
    /\ Get(stats).time_ranges["5-10s"] = 0
    /\ Get(stats).time_ranges["10-30s"] = 1
    /\ Get(stats).time_ranges["30s+"] = 0

\* the Events of a statement type that have SQL text and a query time
TimedOfType(events, type) ==
    { i \in Timed(events) : HasSql(events[i]) /\ get_sql_type(Get(events[i].sql)) = type }

\* the statement types of the Events
TypesOf(events) ==
    { get_sql_type(Get(events[i].sql)) : i \in { j \in DOMAIN events : HasSql(events[j]) } }

\* the keys of a dict
Keys(dict) == { dict[k].key : k \in DOMAIN dict }

\* C17: type_performance has an entry for exactly the statement types with at
\* least one Event that has SQL text and a query time, and the entry's count
\* is the number of those Events.
C17_TypePerformanceCounts ==
    FullStats =>
        /\ Keys(Get(stats).type_performance)
              = { type \in TypesOf(Events) : TimedOfType(Events, type) # {} }
        /\ \A k \in DOMAIN Get(stats).type_performance :
              Get(stats).type_performance[k].value.count
                  = Cardinality(TimedOfType(Events, Get(stats).type_performance[k].key))

\* the Events with SQL text that normalizes to a template, in input order
EventsOf(events, template) ==
    Pick(events, { i \in DOMAIN events :
                     HasSql(events[i]) /\ normalize_sql(Get(events[i].sql)) = template }, 1)

\* a detail record carries the SQL text of an Event and the Event's field
\* values, an absent field being absent in the record too
SameFields(detail, event) ==
    /\ Some(detail.original_sql) = event.sql
    /\ Some(detail.query_time) = event.query_time
    /\ Some(detail.time) = event.time
    /\ Some(detail.user) = event.user
    /\ Some(detail.host) = event.host
    /\ Some(detail.rows_examined) = event.rows_examined
    /\ Some(detail.rows_sent) = event.rows_sent
    /\ Some(detail.lock_time) = event.lock_time
    /\ Some(detail.timestamp) = event.timestamp
    /\ Some(detail.thread_id) = event.thread_id
    /\ Some(detail.schema) = event.schema
    /\ detail.tables_used = event.tables_used

\* C18: the template index maps each template to the Events with SQL text
\* that normalizes to it, one detail record for each in input order; a record
\* carries the Event's SQL text and field values, an absent field staying
\* absent; and the keys are the templates of the summary entries.
C18_TemplateIndexFaithful ==
    IsSome(template_to_raw_dict) =>
        /\ Keys(Get(template_to_raw_dict))
              = { Summaries[k].template : k \in DOMAIN Summaries }
        /\ \A k \in DOMAIN Get(template_to_raw_dict) :
              /\ Len(Get(template_to_raw_dict)[k].details)
                    = Len(EventsOf(Events, Get(template_to_raw_dict)[k].key))
              /\ \A n \in DOMAIN Get(template_to_raw_dict)[k].details :
                    SameFields(Get(template_to_raw_dict)[k].details[n],
                               EventsOf(Events, Get(template_to_raw_dict)[k].key)[n])

\* the claims about the requests to the server.

\* the dataset that a completed load of a stored analysis installs: the name,
\* the summary and the events of that one directory, and the template index
\* of these events
DatasetOf(name, dir) ==
    [ name |-> name,
      summary_data |-> SummaryEntries(Get(dir.summary)),
      template_to_raw_dict |->
          build_template_to_raw_mapping(QueryEntries(Get(dir.raw_data))),
      raw_data |-> QueryEntries(Get(dir.raw_data)) ]

\* the dataset that a completed load of the default analysis installs, from
\* the data files of the working directory or empty without them
DefaultDataset(files) ==
    IF IsSome(files)
    THEN [ name |-> DefaultName,
           summary_data |-> SummaryEntries(Get(files).normalized_sql_summary),
           template_to_raw_dict |->
               build_template_to_raw_mapping(QueryEntries(Get(files).parsed_slow_log)),
           raw_data |-> QueryEntries(Get(files).parsed_slow_log) ]
    ELSE [ name |-> DefaultName, summary_data |-> <<>>,
           template_to_raw_dict |-> <<>>, raw_data |-> <<>> ]

\* a current analysis is whole if all its fields are of one completed load
\* from the given data directory
Whole(current, dirs) ==
    \/ \E name \in AnalysisNames :
          /\ IsSome(dirs[name])
          /\ IsSome(Get(dirs[name]).summary) /\ IsSome(Get(dirs[name]).raw_data)
          /\ current = DatasetOf(name, Get(dirs[name]))
    \/ \E files \in WorkingDirectory : current = DefaultDataset(files)

\* what a read request returns of a dataset
ReadsOf(current) ==
    { [ request |-> "raw_sqls", body |-> get_raw_sqls(current, index) ] :
          index \in TemplateIndexes }
    \cup { [ request |-> "raw_queries", body |-> get_raw_queries(current, query) ] :
             query \in RawQueries }
    \cup { [ request |-> "performance_stats", body |-> get_performance_stats(current) ],
           [ request |-> "tables_list", body |-> get_tables_list(current) ] }

ReadRequests == { "raw_sqls", "raw_queries", "performance_stats", "tables_list" }

\* the step from one state of the server to the next keeps the switch atomic:
\* a current analysis that changes is replaced by a whole dataset, and a read
\* leaves it alone and returns what it holds
AtomicStep(current, next, dirs, answer) ==
    /\ next # current => Whole(next, dirs)
    /\ (IsSome(answer) /\ Get(answer).request \in ReadRequests) =>
          /\ next = current
          /\ [ request |-> Get(answer).request, body |-> Get(answer).body ]
                \in ReadsOf(current)

\* C19: switching the active analysis is atomic for readers: under any
\* interleaving of switch, delete and upload requests with read requests,
\* every replacement of the current analysis installs the name, summary,
\* template index and events of one completed load, and every read returns
\* the data of the one current analysis, never a mixture of two datasets.
C19_SwitchIsAtomic ==
    [][ AtomicStep(current_analysis, current_analysis', data_dir', response') ]_vars

\* a read of the template index after a switch from analysis a to analysis
\* b: it returns the one statement of b, none of a
C19_Witness ==
    /\ IsSome(data_dir["a"]) /\ IsSome(data_dir["b"])
    /\ current_analysis.name = "b"
    /\ Whole(current_analysis, data_dir)
    /\ IsSome(response)
    /\ Get(response).request = "raw_sqls"
    /\ Get(response).body = get_raw_sqls(current_analysis, 0)
    /\ Len(Get(response).body.raw_sqls) = 1
    /\ Get(response).body.raw_sqls[1].query_time = 6000000

\* an analysis directory with all its files: the uploaded log, raw_data.json,
\* summary.json and metadata.json
Complete(dir) ==
    /\ dir.originals # {}
    /\ IsSome(dir.raw_data) /\ IsSome(dir.summary) /\ IsSome(dir.metadata)

\* whether a call of save_analysis fails: a write fails or the parser raises
SaveFails(upload, failure) == failure # "none" \/ upload.parsed.raised

\* in a state of the server every stored analysis is complete, and every
\* save_analysis that fails raises and leaves no directory of its name
NothingPartial(dirs) ==
    /\ \A name \in AnalysisNames : IsSome(dirs[name]) => Complete(Get(dirs[name]))
    /\ \A request \in Uploads, failure \in WriteFailures :
          SaveFails(request[2], failure) =>
              /\ IsSome(save_analysis(dirs, request[1], request[2], failure).error)
              /\ save_analysis(dirs, request[1], request[2], failure).data_dir[request[1]]
                    = None

\* an upload that is answered with an error leaves no directory of its name,
\* one that is answered with success leaves a complete one
UploadAllOrNothing(answer, dirs) ==
    (IsSome(answer) /\ Get(answer).request = "upload_log") =>
        IF Get(answer).status = 200
        THEN /\ IsSome(dirs[Get(answer).analysis_name])
             /\ Complete(Get(dirs[Get(answer).analysis_name]))
        ELSE dirs[Get(answer).analysis_name] = None

----------------------------------------------------------------------------
(* Storing events and reading them back.                                   *)

\* the events a stored analysis of this name can have been saved from
SavedEvents(name) ==
    { request[2].parsed.entries :
        request \in { r \in Uploads : r[1] = name /\ ~r[2].parsed.raised } }

\* the event that QueryEntry(**item) builds from the dict written for it
ReadBack(entry) == QueryEntry(_query_entry_to_dict(entry))

\* an event has a field that is null
HasNull(entry) ==
    \/ entry.user = None \/ entry.thread_id = None \/ entry.schema = None
    \/ entry.rows_affected = None \/ entry.bytes_sent = None

\* C21: an event written by _query_entry_to_dict and read back by
\* QueryEntry(**item) is the same event, field for field, null fields
\* staying null; so the events a stored analysis holds on disk, and the
\* events of the current analysis after it was loaded, are the events parsed
\* from the log it was saved from
C21_EventsRoundTrip ==
    /\ \A name \in StoredNames :
          IsSome(data_dir[name]) =>
              /\ QueryEntries(Get(Get(data_dir[name]).raw_data)) \in SavedEvents(name)
              /\ \A events \in SavedEvents(name) :
                    /\ QueryEntries(RawDataDict(events)) = events
                    /\ \A i \in DOMAIN events : ReadBack(events[i]) = events[i]
    /\ current_analysis.name \in StoredNames =>
          current_analysis.raw_data \in SavedEvents(current_analysis.name)

\* a saved analysis was loaded and has an event with null fields and an event
\* with tables
C21_Witness ==
    /\ current_analysis.name \in StoredNames
    /\ IsSome(data_dir[current_analysis.name])
    /\ \E i \in DOMAIN current_analysis.raw_data :
          /\ HasNull(current_analysis.raw_data[i])
          /\ current_analysis.raw_data[i].tables_used # <<>>

----------------------------------------------------------------------------
(* The users and the tables of the statistics.                             *)

\* the events with a user, and the events that use a table
EventsOfUser(events, user) == { i \in DOMAIN events : events[i].user = Some(user) }
EventsOfTable(events, table) ==
    { i \in DOMAIN events :
        \E p \in DOMAIN events[i].tables_used : events[i].tables_used[p] = table }

\* the users (the empty name is no user) and the tables of the events
UsersOf(events) ==
    { user \in { Get(events[i].user) : i \in { j \in DOMAIN events : IsSome(events[j].user) } } :
        user # <<>> }
TablesOf(events) ==
    UNION { { events[i].tables_used[p] : p \in DOMAIN events[i].tables_used } :
              i \in DOMAIN events }

\* where a user and a table are seen first: the event, and for a table its
\* place among the tables of that event
UserSeen(events, user) == Min(EventsOfUser(events, user))
TableSeen(events, table) ==
    LET i == Min(EventsOfTable(events, table))
    IN  << i, Min({ p \in DOMAIN events[i].tables_used :
                      events[i].tables_used[p] = table }) >>
Earlier(a, b) == a[1] < b[1] \/ (a[1] = b[1] /\ a[2] < b[2])

\* an entry of a listing stands rightly before a later one: its count is
\* greater, or the same and its key was seen first
RightlyBefore(a, b, earlier) == a.value > b.value \/ (a.value = b.value /\ earlier)

\* a listing of at most limit keys with their counts: as many of the keys as
\* the limit allows, none twice, none left out that has a greater count than
\* a listed one
ListsTop(listed, limit, keys) ==
    /\ Len(listed) = (IF Cardinality(keys) < limit THEN Cardinality(keys) ELSE limit)
    /\ Len(listed) <= limit
    /\ Keys(listed) \subseteq keys
    /\ Cardinality(Keys(listed)) = Len(listed)

\* C22: user_stats lists at most 10 users and table_stats at most 20 tables,
\* those with the highest counts, in descending order of count, equal counts
\* in the order in which the keys were first seen; the count of a user is the
\* number of events with that user, the count of a table the number of
\* events whose tables contain it; and no key that is left out has a greater
\* count than a listed one
C22_TopUsersAndTables ==
    FullStats =>
        /\ ListsTop(Get(stats).user_stats, 10, UsersOf(Events))
        /\ \A i \in DOMAIN Get(stats).user_stats :
              /\ Get(stats).user_stats[i].value
                    = Cardinality(EventsOfUser(Events, Get(stats).user_stats[i].key))
              /\ \A user \in UsersOf(Events) \ Keys(Get(stats).user_stats) :
                    Cardinality(EventsOfUser(Events, user))
                        <= Get(stats).user_stats[i].value
              /\ \A j \in DOMAIN Get(stats).user_stats :
                    i < j => RightlyBefore(Get(stats).user_stats[i],
                                           Get(stats).user_stats[j],
                                           UserSeen(Events, Get(stats).user_stats[i].key)
                                             < UserSeen(Events, Get(stats).user_stats[j].key))
        /\ ListsTop(Get(stats).table_stats, 20, TablesOf(Events))
        /\ \A i \in DOMAIN Get(stats).table_stats :
              /\ Get(stats).table_stats[i].value
                    = Cardinality(EventsOfTable(Events, Get(stats).table_stats[i].key))
              /\ \A table \in TablesOf(Events) \ Keys(Get(stats).table_stats) :
                    Cardinality(EventsOfTable(Events, table))
                        <= Get(stats).table_stats[i].value
              /\ \A j \in DOMAIN Get(stats).table_stats :
                    i < j => RightlyBefore(Get(stats).table_stats[i],
                                           Get(stats).table_stats[j],
                                           Earlier(TableSeen(Events, Get(stats).table_stats[i].key),
                                                   TableSeen(Events, Get(stats).table_stats[j].key)))

\* twelve users and twenty-four tables, one user and its two tables seen
\* twice: ten users and twenty tables are listed, the repeated ones first,
\* and two users and four tables are left out
C22_Witness ==
    /\ FullStats
    /\ Cardinality(UsersOf(Events)) > 10
    /\ Cardinality(TablesOf(Events)) > 20
    /\ Len(Get(stats).user_stats) = 10
    /\ Len(Get(stats).table_stats) = 20
    /\ Get(stats).user_stats[1].value = 2
    /\ Get(stats).user_stats[2].value = 1
    /\ Get(stats).table_stats[2].value = 2
    /\ Get(stats).table_stats[3].value = 1
    /\ UserSeen(Events, Get(stats).user_stats[1].key) > 10

----------------------------------------------------------------------------
(* The statement type.                                                     *)

\* the seven statement types
TypeNames == SqlKeywords \cup { TypeOther }

\* where the first character that is no whitespace stands (behind the text if
\* there is none) and where the word that starts there ends
WordStart(text) ==
    Min({ i \in 1..(Len(text) + 1) : i = Len(text) + 1 \/ text[i] \notin Space })
WordEnd(text) ==
    Min({ j \in WordStart(text)..(Len(text) + 1) :
            j = Len(text) + 1 \/ text[j] \notin WordChars })

\* the first word of a text, empty if the text has none at its start
FirstWord(text) == SubSeq(text, WordStart(text), WordEnd(text) - 1)

\* C23: get_sql_type returns one of SELECT, INSERT, UPDATE, DELETE, REPLACE,
\* CALL and OTHER: the first word of the text in upper case when that is one
\* of the six keywords, whatever the case it is written in, and OTHER for
\* every other text, the empty text and a text whose first character after
\* the whitespace is no word character included
C23_TypeIsKeywordOrOther ==
    IsSome(type_of_sql) =>
        /\ Get(type_of_sql) \in TypeNames
        /\ Get(type_of_sql) = (IF Upper(FirstWord(sqlA)) \in SqlKeywords
                               THEN Upper(FirstWord(sqlA)) ELSE TypeOther)
        /\ FirstWord(sqlA) = <<>> => Get(type_of_sql) = TypeOther

\* " Update(" is an UPDATE
C23_Witness ==
    /\ sqlA = <<" ","U","p","d","a","t","e","(">>
    /\ type_of_sql = Some(<<"U","P","D","A","T","E">>)

\* C29: the type of a template is the type of the SQL text it was made from:
\* get_sql_type(normalize_sql(x)) = get_sql_type(x)
C29_TemplateKeepsType ==
    IsSome(type_of_template) => type_of_template = type_of_sql

\* " call(" is a CALL and so is its template "call("
C29_Witness ==
    /\ sqlA = <<" ","c","a","l","l","(">>
    /\ tplA = Some(<<"c","a","l","l","(">>)
    /\ type_of_sql = Some(<<"C","A","L","L">>)
    /\ type_of_template = Some(<<"C","A","L","L">>)

----------------------------------------------------------------------------
(* The current analysis and the data directory.                            *)

\* C24: after every sequence of calls of load_analysis_data, save_analysis,
\* delete_analysis and merge_analysis, failed ones included, the name of the
\* current analysis is the default name or the name of an analysis directory
\* that exists
C24_CurrentNeverDangles ==
    \/ current_analysis.name = DefaultName
    \/ /\ current_analysis.name \in DOMAIN data_dir
       /\ IsSome(data_dir[current_analysis.name])

\* what the answer to a delete request and the state after it have to be,
\* given the state before it
DeleteOutcome(answer, dirs, current, dirs_after, current_after) ==
    IF answer.analysis_name = DefaultName
    THEN /\ answer.status = 400 /\ answer.body = [ detail |-> "ValueError" ]
         /\ dirs_after = dirs /\ current_after = current
    ELSE IF dirs[answer.analysis_name] = None
    THEN /\ answer.status = 404 /\ answer.body = [ detail |-> "FileNotFoundError" ]
         /\ dirs_after = dirs /\ current_after = current
    ELSE /\ answer.status = 200
         /\ dirs_after = [ dirs EXCEPT ![answer.analysis_name] = None ]
         /\ IF current.name = answer.analysis_name
            THEN /\ \E files \in WorkingDirectory : current_after = DefaultDataset(files)
                 /\ answer.body.current_analysis = DefaultName
            ELSE /\ current_after = current
                 /\ answer.body.current_analysis = current.name

\* C25: delete_analysis never deletes the default analysis (ValueError,
\* nothing changed) and raises FileNotFoundError, nothing changed, for a name
\* without directory; when it succeeds the directory of that name is gone and
\* no other, the current analysis is the default one if the deleted analysis
\* was the current one and is unchanged otherwise
C25_DeleteOutcomes ==
    [][ (IsSome(response') /\ Get(response').request = "delete_analysis") =>
            DeleteOutcome(Get(response'), data_dir, current_analysis,
                          data_dir', current_analysis') ]_vars

\* analysis a was deleted while b was current: b is still stored and current
C25_Witness ==
    /\ IsSome(response)
    /\ Get(response).request = "delete_analysis"
    /\ Get(response).analysis_name = "a"
    /\ Get(response).status = 200
    /\ data_dir["a"] = None
    /\ IsSome(data_dir["b"])
    /\ current_analysis = DatasetOf("b", Get(data_dir["b"]))

\* the directory, summary.json or raw_data.json of an analysis is missing
CannotLoad(dirs, name) ==
    \/ dirs[name] = None
    \/ Get(dirs[name]).summary = None
    \/ Get(dirs[name]).raw_data = None

\* C26: a call of load_analysis_data for a name other than the default one
\* whose directory, summary.json or raw_data.json is missing raises, and the
\* current analysis keeps the name, summary_data, template_to_raw_dict and
\* raw_data it had before the call; in every state the server can be in
C26_FailedLoadKeepsCurrent ==
    \A analysis_name \in AnalysisNames, files \in WorkingDirectory :
        CannotLoad(data_dir, analysis_name) =>
            /\ IsSome(load_analysis_data(data_dir, current_analysis, files,
                                         analysis_name).error)
            /\ load_analysis_data(data_dir, current_analysis, files,
                                  analysis_name).current_analysis = current_analysis

\* analysis b is current with its event; a has no directory and the
\* directory of m has raw_data.json and no summary.json: loading a or m
\* fails
C26_Witness ==
    /\ current_analysis.name = "b"
    /\ Len(current_analysis.raw_data) = 1
    /\ data_dir["a"] = None
    /\ IsSome(data_dir["m"])
    /\ IsSome(Get(data_dir["m"]).raw_data)
    /\ Get(data_dir["m"]).summary = None
    /\ load_analysis_data(data_dir, current_analysis, None, "m").error
          = Some("FileNotFoundError")
    /\ load_analysis_data(data_dir, current_analysis, None, "a").error
          = Some("FileNotFoundError")

\* a step writes a directory: one is there after the step that was not there,
\* or was not the same, before it; only save_analysis and merge_analysis do
Writes(dirs, dirs_after) ==
    \E name \in AnalysisNames : IsSome(dirs_after[name]) /\ dirs_after[name] # dirs[name]

\* a step is a load: the data directory is as it was and the current analysis
\* is a whole dataset of it
IsLoad(dirs, dirs_after, current_after) ==
    dirs_after = dirs /\ Whole(current_after, dirs)

\* a step is a delete of the current analysis: its directory is removed, no
\* other is touched, and the current analysis is the default one
IsDeleteOfCurrent(dirs, current, dirs_after, current_after) ==
    /\ current.name \in AnalysisNames
    /\ IsSome(dirs[current.name])
    /\ dirs_after = [ dirs EXCEPT ![current.name] = None ]
    /\ \E files \in WorkingDirectory : current_after = DefaultDataset(files)

\* C27: save_analysis and merge_analysis never change the current analysis,
\* its name, summary_data, template_to_raw_dict and raw_data, also when the
\* analysis is saved under the name of the current analysis; the current
\* analysis is replaced only by load_analysis_data and by delete_analysis of
\* the current analysis
C27_SaveAndMergeKeepCurrent ==
    [][ /\ Writes(data_dir, data_dir') => current_analysis' = current_analysis
        /\ current_analysis' # current_analysis =>
              \/ IsLoad(data_dir, data_dir', current_analysis')
              \/ IsDeleteOfCurrent(data_dir, current_analysis, data_dir',
                                   current_analysis') ]_vars

\* analysis a is current, with the events it was loaded with, while m has
\* been merged from a and b and all three are stored
C27_Witness ==
    /\ current_analysis.name = "a"
    /\ IsSome(data_dir["a"]) /\ IsSome(data_dir["b"]) /\ IsSome(data_dir["m"])
    /\ current_analysis = DatasetOf("a", Get(data_dir["a"]))
    /\ IsMerged(Get(data_dir["m"]))
    /\ Get(Get(data_dir["m"]).metadata).merge_info[1].merged_from = << "a", "b" >>

\* merge_analysis has to refuse: the merged name is taken, there are fewer
\* than two source names, or no source gives an event
MergeRefused(merged_name, source_files) ==
    \/ IsSome(data_dir[merged_name])
    \/ Len(source_files) < 2
    \/ Concatenation(source_files) = <<>>

\* what a call of merge_analysis gives in a state of the data manager: a
\* ValueError and the data directory as it is when the merge is refused, and
\* else the data directory with the merged directory added and every other
\* directory as it is
MergeOutcome(merged_name, source_files, result) ==
    IF MergeRefused(merged_name, source_files)
    THEN result.error = Some("ValueError") /\ result.data_dir = data_dir
    ELSE /\ result.error = None
         /\ IsSome(result.data_dir[merged_name])
         /\ IsMerged(Get(result.data_dir[merged_name]))
         /\ \A name \in AnalysisNames \ { merged_name } :
               result.data_dir[name] = data_dir[name]

\* C28: merge_analysis never overwrites or alters a stored analysis: with a
\* merged name whose directory exists, with fewer than two source names, or
\* when no source gives an event, it raises ValueError and creates or
\* modifies no file; when it succeeds the files of the sources are unchanged
\* and only the merged directory is added.  Of every call in every state,
\* and of every step that adds a merged directory
C28_MergeNeverOverwrites ==
    /\ [](\A merged_name \in AnalysisNames, source_files \in SourceLists :
            MergeOutcome(merged_name, source_files,
                         merge_analysis(data_dir, current_analysis, merged_name,
                                        source_files)))
    /\ [][ \A merged_name \in AnalysisNames :
             ( /\ IsSome(data_dir'[merged_name])
               /\ data_dir'[merged_name] # data_dir[merged_name]
               /\ IsMerged(Get(data_dir'[merged_name])) ) =>
                 /\ data_dir[merged_name] = None
                 /\ \A name \in AnalysisNames \ { merged_name } :
                       data_dir'[name] = data_dir[name] ]_vars

\* a and b are stored and were merged into m: another merge into m, a merge
\* into a, and a merge of one source are refused
C28_Witness ==
    /\ IsSome(data_dir["a"]) /\ IsSome(data_dir["b"]) /\ IsSome(data_dir["m"])
    /\ IsMerged(Get(data_dir["m"]))
    /\ Get(Get(Get(data_dir["m"]).metadata).merge_info).merged_from = << "b", "a" >>
    /\ merge_analysis(data_dir, current_analysis, "m", << "a", "b" >>).error
          = Some("ValueError")
    /\ merge_analysis(data_dir, current_analysis, "a", << "a", "b" >>).data_dir
          = data_dir

----------------------------------------------------------------------------
(* Several files uploaded at once.                                         *)

\* the text of an uploaded file, by its name
ContentOf(filename) ==
    (CHOOSE file \in UploadFiles : file.filename = filename).content

\* parse_slow_log(f1) ++ ... ++ parse_slow_log(fn) of the first n files of a
\* file_info list
RECURSIVE ParsedOneByOne(_, _)
ParsedOneByOne(files_info, n) ==
    IF n = 0 THEN <<>>
    ELSE ParsedOneByOne(files_info, n - 1)
         \o parse_slow_log(ContentOf(files_info[n].filename)).entries

\* the last request was an upload of several files that was stored
StoredMultiple ==
    /\ IsSome(response)
    /\ Get(response).request = "upload_multiple_logs"
    /\ Get(response).status = 200

\* C30: uploading several files at once is the same as parsing them one by
\* one: the events stored for the joined content are the events of the first
\* file, followed by those of the second, and so on, for every file content
C30_JoinedEqualsOneByOne ==
    StoredMultiple =>
        QueryEntries(Get(Get(data_dir[Get(response).analysis_name]).raw_data))
            = ParsedOneByOne(Get(response).body.files_info,
                             Len(Get(response).body.files_info))

====
